---- MODULE Spec2Model ----
(***************************************************************************)
(* Model of the match-and-aggregate engine of music-proyo:                 *)
(*   matcher.py               Matcher (cross-source album match)           *)
(*   hybrid_genre_fetcher.py  HybridGenreFetcher (per-source fetch, cache, *)
(*                            aggregate_genres)                            *)
(*   batch_processor.py       BatchProcessor.process_album                 *)
(*   hybrid_batch_processor.py HybridBatchProcessor.process_album          *)
(*                                                                         *)
(* Numbers.  The code works on floats; the model uses exact integers:      *)
(*   - a string similarity (SequenceMatcher.ratio) is kept in tenths,      *)
(*   - a match score / match_quality (average of two similarities) is kept *)
(*     in twentieths: 14 is 0.7, 20 is 1.0,                                *)
(*   - a source weight is kept in hundredths: 85 is 0.85,                  *)
(*   - every confidence (a percentage) is kept in units of 1/ConfScale of  *)
(*     a point: Pct(95) is 95.0,                                           *)
(*   - an accumulated genre score is weight (hundredths) * confidence      *)
(*     (1/ConfScale points): ScoreUnit is 1.0.                             *)
(* All strings are the lower-cased forms the code compares and hashes.     *)
(***************************************************************************)
EXTENDS Integers, Sequences, FiniteSets, TLC

VARIABLES
    apis,            \* HybridGenreFetcher.apis: the sources that initialised
    job,             \* BatchJob: confidence_threshold, dry_run
    hybrid_cfg,      \* HybridBatchProcessor: confidence_threshold, dry_run of the run
    pc,              \* position of the single thread of control
    flow,            \* which entry point is running
    cur,             \* the local album (artist, album) being processed
    all_matches,     \* find_best_album_match: all_matches
    best_match,      \* match_album: best_match (<<>> is None)
    fetch_args,      \* arguments of the running fetch_all_sources call (<<>>: none)
    genre_sources,   \* fetch_all_sources: genre_sources
    aggregated,      \* result of the last aggregate_genres (<<>>: none yet)
    genre_cache,     \* table genre_cache of hybrid_genre_cache.db
    match_result,    \* MatchResult returned by Matcher.match_album (<<>>: none)
    result,          \* result returned by the last process_album (<<>>: none)
    hybrid_db,       \* table album_results of HybridBatchProcessor
    alt_sources,     \* second input of the two-run comparison of aggregate_genres
    alt_aggregated,  \* its result
    candidates,      \* history: the match scores of all the items the searches
                     \* of the running find_best_album_match looked at
    failed_sources,  \* history: the sources whose search hit an error in the
                     \* running find_best_album_match
    stored_sources   \* history: the GenreSource each cache row was written from

\* BatchProcessor.run_batch_job and BatchDatabase
VARIABLES
    job_queue,       \* run_batch_job: the album keys not yet processed
    job_state,       \* "none", "running", "returned", "raised" or "interrupted"
    job_id,          \* the job_id argument of the running (or last) run_batch_job
    job_runs,        \* number of calls of run_batch_job so far
    counters,        \* run_batch_job: processed, successful, failed,
                     \* needs_review, skipped
    batch_jobs,      \* table batch_jobs (sequence of rows; job_id = position)
    album_results,   \* table album_results (sequence of rows; id = position)
    manual_review_queue, \* table manual_review_queue (sequence of rows)
    run_start        \* history: the numbers of rows of album_results and of
                     \* manual_review_queue when the run began

jobvars == <<job_queue, job_state, job_id, job_runs, counters, batch_jobs,
             album_results, manual_review_queue, run_start>>

\* EnhancedAPIClient with its APICache and RateLimiter
VARIABLES
    now,             \* time.time(), in ticks of 0.1 s
    api_cache,       \* table api_cache: set of rows (key, response, expires_at)
    rate_limit_log,  \* table rate_limit_log: timestamps of the logged requests
    config,          \* api_config.json: which credentials are present
    network_up,      \* FALSE: every network call raises (connection error)
    client_api,      \* the API whose search method is being called
    client_pc,       \* position inside the running search method
    client_album,    \* number of the album of the running (or last) call
    client_repeat,   \* the running (or last) call repeats the call before it
    client_result,   \* what the last call returned: <<>> while none returned
    first_result,    \* history: what the first call for client_album returned
    call_requests,   \* history: network requests issued by the running call
    requests_sent,   \* history: the times of all network requests issued
    last_wait,       \* history: the last wait_if_needed: when, and did it sleep
    cache_got,       \* the last APICache.get called on its own: key, time, value
    cache_stored,    \* history: the last APICache.set of each key
    callers          \* threads that use the RateLimiter on the same
                     \* api_cache.db: position, wake-up time, calls made

clientvars == <<now, api_cache, rate_limit_log, config, network_up, client_api,
                client_pc, client_album, client_repeat, client_result,
                first_result, call_requests, requests_sent, last_wait,
                cache_got, cache_stored, callers>>

mainvars == <<apis, job, hybrid_cfg, pc, flow, cur, all_matches, best_match,
              fetch_args, genre_sources, aggregated, genre_cache, match_result,
              result, hybrid_db, alt_sources, alt_aggregated, candidates,
              failed_sources, stored_sources>>

vars == <<apis, job, hybrid_cfg, pc, flow, cur, all_matches, best_match,
          fetch_args, genre_sources, aggregated, genre_cache, match_result,
          result, hybrid_db, alt_sources, alt_aggregated, candidates,
                   failed_sources, stored_sources, jobvars, clientvars>>

-----------------------------------------------------------------------------
(* Bounds *)

MaxResults == 2      \* length of one API search response
MaxTracks == 1       \* track files per album

-----------------------------------------------------------------------------
(* Units and program constants *)

ConfScale == 1200
Pct(p) == p * ConfScale
ScoreUnit == 100 * 100 * ConfScale

MinMatchScore == 14                 \* 0.7, in twentieths
MinGenreScore == (3 * ScoreUnit) \div 10    \* min_score = 0.3
MaxFinalGenres == 10                \* len(final_genres) < 10
MaxBonus == 15                      \* min(15, ...)
BonusPerSource == 10                \* (len(genre_sources) - 1) * 10
MaxMusicbrainzGenres == 10          \* genres[:10]
ReleaseTagMinCount == 2
ArtistTagMinCount == 3

None == <<>>
Some(x) == <<x>>

source_weights ==
    [s \in {"spotify", "musicbrainz", "lastfm", "discogs", "deezer", "allmusic"} |->
        CASE s = "spotify" -> 100
          [] s = "musicbrainz" -> 85
          [] s = "lastfm" -> 70
          [] s = "discogs" -> 80
          [] s = "deezer" -> 75
          [] s = "allmusic" -> 90]

-----------------------------------------------------------------------------
(* The local library and the remote catalogues *)

Album(artist, album) == [artist |-> artist, album |-> album, has_artist |-> TRUE]

\* the scanned library: one misspelled album and one exact one
Library == {Album("pink floid", "pulse"), Album("pink floyd", "pulse")}

album_key(a) == <<a.artist, a.album>>

\* the albums the raw-metadata flows are run on: run_batch(sample_size=1)
\* takes one album
HybridSample == {Album("pink floid", "pulse")}

\* releases the remote catalogues can return
Catalog == {Album("pink floyd", "pulse"), Album("pink floyd", "pulze"),
            Album("pink fairy", "pulse"), Album("punk flood", "false"),
            Album("pink fairy", "false")}

\* an item without artists / artist-credit (malformed payload)
BadItem == [artist |-> "", album |-> "pulse", has_artist |-> FALSE]

Items == Catalog \cup {BadItem}

\* SequenceMatcher(None, a, b).ratio() on the strings of the model, in tenths
\* (values computed with difflib)
RatioTable(a, b) ==
    CASE {a, b} = {"pink floid", "pink floyd"} -> 9
      [] {a, b} = {"pink floid", "punk flood"} -> 8
      [] {a, b} = {"pink floid", "pink fairy"} -> 7
      [] {a, b} = {"pink floyd", "punk flood"} -> 8
      [] {a, b} = {"pink floyd", "pink fairy"} -> 7
      [] {a, b} = {"punk flood", "pink fairy"} -> 5
      [] {a, b} = {"pulse", "pulze"} -> 8
      [] {a, b} = {"pulse", "false"} -> 6
      [] {a, b} = {"pulze", "false"} -> 4
      [] OTHER -> 0

calculate_string_similarity(str1, str2) ==
    IF str1 = str2 THEN 10 ELSE RatioTable(str1, str2)

\* match_score = (artist_similarity + album_similarity) / 2, in twentieths
match_score_of(artist, album, item) ==
    calculate_string_similarity(artist, item.artist)
        + calculate_string_similarity(album, item.album)

\* the releases the fetch flows draw their responses from
FlowItems == {Album("pink floyd", "pulse"), BadItem}

\* one API search response: the items returned, or a transport error
ResponsesOver(items) ==
    [error : {FALSE}, items : UNION {[1..n -> items] : n \in 0..MaxResults}]
        \cup {[error |-> TRUE, items |-> <<>>]}

SearchResponses == ResponsesOver(Items)

FlowResponses == ResponsesOver(FlowItems)

-----------------------------------------------------------------------------
(* Matcher: per-source album search and cross-source best match *)

AlbumMatch(source, item, score) ==
    [source |-> source, artist |-> item.artist, album |-> item.album,
     match_score |-> score]

\* variant of SearchLoop: the loop without the test match_score >= 0.7
RECURSIVE SearchLoopNoThreshold(_, _, _, _, _, _)
SearchLoopNoThreshold(source, artist, album, items, i, matches) ==
    IF i > Len(items) THEN matches
    ELSE IF ~items[i].has_artist
         THEN IF source = "spotify" THEN matches
              ELSE SearchLoopNoThreshold(source, artist, album, items, i + 1, matches)
         ELSE SearchLoopNoThreshold(source, artist, album, items, i + 1,
                  Append(matches, AlbumMatch(source, items[i],
                                             match_score_of(artist, album, items[i]))))

\* the loop over the returned items, shared by the Spotify and MusicBrainz
\* searches.  An item without artist raises in the Spotify loop (the matches
\* collected so far are returned by the except branch) and is skipped by the
\* MusicBrainz loop.
RECURSIVE SearchLoop(_, _, _, _, _, _)
SearchLoop(source, artist, album, items, i, matches) ==
    IF i > Len(items) THEN matches
    ELSE IF ~items[i].has_artist
         THEN IF source = "spotify" THEN matches
              ELSE SearchLoop(source, artist, album, items, i + 1, matches)
         ELSE LET score == match_score_of(artist, album, items[i])
              IN SearchLoop(source, artist, album, items, i + 1,
                     IF score >= MinMatchScore
                     THEN Append(matches, AlbumMatch(source, items[i], score))
                     ELSE matches)

\* the match scores a source computes for the items of its response
candidate_scores(source, artist, album, response) ==
    IF source \notin apis \/ response.error THEN {}
    ELSE {match_score_of(artist, album, response.items[i]) :
              i \in {j \in 1..Len(response.items) : response.items[j].has_artist}}

\* the search of a source hit an error: no client for the source (missing
\* credentials), a transport error, or, in the Spotify loop, an item without
\* artists (the MusicBrainz loop skips such an item)
search_failed(source, response) ==
    \/ source \notin apis
    \/ response.error
    \/ source = "spotify" /\ \E i \in 1..Len(response.items) : ~response.items[i].has_artist

_search_spotify_albums(artist, album, response) ==
    IF "spotify" \notin apis THEN <<>>
    ELSE IF response.error \/ response.items = <<>> THEN <<>>
    ELSE SearchLoop("spotify", artist, album, response.items, 1, <<>>)

_search_musicbrainz_albums(artist, album, response) ==
    IF "musicbrainz" \notin apis THEN <<>>
    ELSE IF response.error THEN <<>>
    ELSE SearchLoop("musicbrainz", artist, album, response.items, 1, <<>>)

_search_deezer_albums(artist, album) == <<>>

\* variant of MaxByScore: the last element with the greatest key
RECURSIVE MaxByScoreLast(_, _, _)
MaxByScoreLast(matches, i, best) ==
    IF i > Len(matches) THEN best
    ELSE MaxByScoreLast(matches, i + 1,
             IF matches[i].match_score >= best.match_score THEN matches[i] ELSE best)

\* Python's max(list, key=...): the first element with the greatest key
RECURSIVE MaxByScore(_, _, _)
MaxByScore(matches, i, best) ==
    IF i > Len(matches) THEN best
    ELSE MaxByScore(matches, i + 1,
             IF matches[i].match_score > best.match_score THEN matches[i] ELSE best)

select_best(matches) ==
    IF matches = <<>> THEN None ELSE Some(MaxByScore(matches, 2, matches[1]))

-----------------------------------------------------------------------------
(* Remote genre data (what the catalogues hold for the releases above) *)

\* Spotify: artist_details.get('genres', [])
SpotifyArtistGenres(artist) ==
    CASE artist = "pink floyd" -> <<"progressive rock", "art rock">>
      [] artist = "punk flood" -> <<"hip-hop", "hip hop">>
      [] OTHER -> <<>>

Tag(name, count) == [name |-> name, count |-> count]

\* MusicBrainz: detailed_release['release']['tag-list']
MusicbrainzReleaseTags(item) ==
    CASE item.artist = "pink floyd" /\ item.album = "pulse" ->
            <<Tag("progressive rock", 5), Tag("live", 1)>>
      [] item.artist = "punk flood" -> <<Tag("hip hop", 2)>>
      [] OTHER -> <<>>

\* MusicBrainz: artist_details['artist']['tag-list']
MusicbrainzArtistTags(artist) ==
    CASE artist = "pink floyd" ->
            <<Tag("psychedelic rock", 3), Tag("progressive rock", 9), Tag("british", 2)>>
      [] artist = "punk flood" -> <<Tag("hip-hop", 4)>>
      [] OTHER -> <<>>

\* Deezer: name of the genre behind best_match['genre_id'] (<<>>: no genre)
DeezerGenre(item) ==
    CASE item.artist = "pink floyd" -> <<"Rock">>
      [] item.artist = "punk flood" -> <<"Rap/Hip Hop">>
      [] OTHER -> <<>>

\* str.strip().title() on the genre strings of the model
StripTitle(g) ==
    CASE g = "progressive rock" -> "Progressive Rock"
      [] g = "psychedelic rock" -> "Psychedelic Rock"
      [] g = "art rock" -> "Art Rock"
      [] g = " art rock " -> "Art Rock"
      [] g = "hip-hop" -> "Hip-Hop"
      [] g = "hip hop" -> "Hip Hop"
      [] g = "rock/pop" -> "Rock/Pop"
      [] g = "rock" -> "Rock"
      [] g = "live" -> "Live"
      [] g = "british" -> "British"
      [] OTHER -> g      \* the other strings of the model are in title case

-----------------------------------------------------------------------------
(* HybridGenreFetcher: cache *)

GenreSource(source, genres, confidence, weight, api_confidence, match_quality) ==
    [source |-> source, genres |-> genres, confidence |-> confidence,
     weight |-> weight, api_confidence |-> api_confidence,
     match_quality |-> match_quality]

\* md5(lower(artist)|lower(album)|source): one key per triple
get_cache_key(artist, album, source) == <<artist, album, source>>

FetchSources == <<"spotify", "musicbrainz", "deezer">>

SourceSet == {FetchSources[i] : i \in 1..Len(FetchSources)}

CacheKeys ==
    {get_cache_key(a.artist, a.album, s) : a \in Library \cup Catalog, s \in SourceSet}

\* the SELECT of genres, confidence, weight of an unexpired row; the
\* GenreSource is rebuilt with the dataclass defaults for the other fields
get_cached_result(artist, album, source) ==
    LET rows == genre_cache[get_cache_key(artist, album, source)]
    IN IF rows = <<>> THEN None
       ELSE Some(GenreSource(source, rows[1].genres, rows[1].confidence,
                             rows[1].weight, 0, 0))

\* INSERT OR REPLACE of (genres, confidence, weight)
cache_row(genre_source) ==
    [genres |-> genre_source.genres, confidence |-> genre_source.confidence,
     weight |-> genre_source.weight]

-----------------------------------------------------------------------------
(* HybridGenreFetcher: per-source fetch *)

\* the "find best match" loop of the fetchers: strict >, best_score from 0.
\* Returns <<>> when no item scored above 0, else <<item, score>>.
RECURSIVE BestItem(_, _, _, _, _)
BestItem(artist, album, items, i, best) ==
    IF i > Len(items) THEN best
    ELSE LET score == match_score_of(artist, album, items[i])
         IN BestItem(artist, album, items, i + 1,
                IF score > (IF best = <<>> THEN 0 ELSE best[2])
                THEN <<items[i], score>> ELSE best)

HasBadItem(items) == \E i \in 1..Len(items) : ~items[i].has_artist

\* items that carry an artist-credit, in order
RECURSIVE Credited(_)
Credited(items) ==
    IF items = <<>> THEN <<>>
    ELSE IF Head(items).has_artist THEN <<Head(items)>> \o Credited(Tail(items))
         ELSE Credited(Tail(items))

\* confidence = best_score * 100
ScoreToConfidence(score) == score * 5 * ConfScale

FreshSource(source, genres, score) ==
    GenreSource(source, genres, ScoreToConfidence(score), source_weights[source],
                ScoreToConfidence(score), score)

\* A fetch outcome: the GenreSource returned (or None) and whether it is
\* written to the cache.
Outcome(source_opt, store) == [source |-> source_opt, store |-> store]

NoResult == Outcome(None, FALSE)

fetch_spotify_genres(artist, album, response, details_ok) ==
    IF "spotify" \notin apis THEN NoResult
    ELSE LET cached == get_cached_result(artist, album, "spotify")
         IN IF cached # None THEN Outcome(cached, FALSE)
            ELSE IF response.error \/ response.items = <<>> THEN NoResult
            ELSE IF HasBadItem(response.items) THEN NoResult
            ELSE LET best == BestItem(artist, album, response.items, 1, <<>>)
                 IN IF best = <<>> THEN NoResult
                    ELSE IF best[2] < MinMatchScore THEN NoResult
                    ELSE IF ~details_ok THEN NoResult
                    ELSE LET genres == SpotifyArtistGenres(best[1].artist)
                         IN IF genres = <<>> THEN NoResult
                            ELSE Outcome(Some(FreshSource("spotify", genres, best[2])), TRUE)

\* release tags with count >= 2, title-cased
RECURSIVE ReleaseGenres(_)
ReleaseGenres(tags) ==
    IF tags = <<>> THEN <<>>
    ELSE IF Head(tags).count >= ReleaseTagMinCount
         THEN <<StripTitle(Head(tags).name)>> \o ReleaseGenres(Tail(tags))
         ELSE ReleaseGenres(Tail(tags))

InSeq(x, seq) == \E i \in 1..Len(seq) : seq[i] = x

\* artist tags with count >= 3, title-cased, appended when not yet present
RECURSIVE AddArtistGenres(_, _)
AddArtistGenres(genres, tags) ==
    IF tags = <<>> THEN genres
    ELSE LET genre == StripTitle(Head(tags).name)
         IN AddArtistGenres(
                IF Head(tags).count >= ArtistTagMinCount /\ ~InSeq(genre, genres)
                THEN Append(genres, genre) ELSE genres,
                Tail(tags))

Prefix(seq, n) == SubSeq(seq, 1, IF Len(seq) < n THEN Len(seq) ELSE n)

fetch_musicbrainz_genres(artist, album, response, details_ok, artist_ok) ==
    IF "musicbrainz" \notin apis THEN NoResult
    ELSE LET cached == get_cached_result(artist, album, "musicbrainz")
         IN IF cached # None THEN Outcome(cached, FALSE)
            ELSE IF response.error \/ response.items = <<>> THEN NoResult
            ELSE LET best == BestItem(artist, album, Credited(response.items), 1, <<>>)
                 IN IF best = <<>> THEN NoResult
                    ELSE IF best[2] < MinMatchScore THEN NoResult
                    ELSE IF ~details_ok THEN NoResult
                    ELSE LET release == ReleaseGenres(MusicbrainzReleaseTags(best[1]))
                             genres == IF artist_ok
                                       THEN AddArtistGenres(release,
                                                MusicbrainzArtistTags(best[1].artist))
                                       ELSE release
                         IN IF genres = <<>> THEN NoResult
                            ELSE Outcome(Some(FreshSource("musicbrainz",
                                         Prefix(genres, MaxMusicbrainzGenres), best[2])), TRUE)

fetch_deezer_genres(artist, album, response, details_ok) ==
    LET cached == get_cached_result(artist, album, "deezer")
    IN IF cached # None THEN Outcome(cached, FALSE)
       ELSE IF response.error \/ response.items = <<>> THEN NoResult
       ELSE IF HasBadItem(response.items) THEN NoResult
       ELSE LET best == BestItem(artist, album, response.items, 1, <<>>)
            IN IF best = <<>> THEN NoResult
               ELSE IF best[2] < MinMatchScore THEN NoResult
               ELSE LET genres == IF details_ok THEN DeezerGenre(best[1]) ELSE <<>>
                    IN IF genres = <<>> THEN NoResult
                       ELSE Outcome(Some(FreshSource("deezer", genres, best[2])), TRUE)

-----------------------------------------------------------------------------
(* HybridGenreFetcher.aggregate_genres *)

\* mappings.get(genre.strip().title(), ...)
_normalize_genre_name(genre) ==
    LET normalized == StripTitle(genre)
    IN CASE normalized = "Hip-Hop" -> "Hip Hop"
         [] normalized = "R&B" -> "R&B"
         [] normalized = "Electronic/Dance" -> "Electronic"
         [] normalized = "Rock/Pop" -> "Rock"
         [] normalized = "Alternative Rock" -> "Alternative Rock"
         [] OTHER -> normalized

\* source_multiplier = source.weight * (source.confidence / 100)
source_multiplier(source) == source.weight * source.confidence

\* variant of AddScore: genre_scores[genre] = multiplier instead of +=
AddScoreOverwrite(scores, genre, multiplier) ==
    IF \E i \in 1..Len(scores) : scores[i].genre = genre
    THEN [i \in 1..Len(scores) |->
             IF scores[i].genre = genre
             THEN [genre |-> genre, score |-> multiplier]
             ELSE scores[i]]
    ELSE Append(scores, [genre |-> genre, score |-> multiplier])

\* genre_scores[genre] += multiplier, on a dict that keeps insertion order
AddScore(scores, genre, multiplier) ==
    IF \E i \in 1..Len(scores) : scores[i].genre = genre
    THEN [i \in 1..Len(scores) |->
             IF scores[i].genre = genre
             THEN [genre |-> genre, score |-> scores[i].score + multiplier]
             ELSE scores[i]]
    ELSE Append(scores, [genre |-> genre, score |-> multiplier])

RECURSIVE AddGenres(_, _, _)
AddGenres(scores, genres, multiplier) ==
    IF genres = <<>> THEN scores
    ELSE AddGenres(AddScore(scores, _normalize_genre_name(Head(genres)), multiplier),
                   Tail(genres), multiplier)

RECURSIVE AccumulateScores(_, _)
AccumulateScores(scores, sources) ==
    IF sources = <<>> THEN scores
    ELSE AccumulateScores(
             AddGenres(scores, Head(sources).genres, source_multiplier(Head(sources))),
             Tail(sources))

\* sorted(..., key=score, reverse=True): stable, equal scores keep their order
RECURSIVE InsertByScore(_, _)
InsertByScore(sorted, entry) ==
    IF sorted = <<>> THEN <<entry>>
    ELSE IF Head(sorted).score >= entry.score
         THEN <<Head(sorted)>> \o InsertByScore(Tail(sorted), entry)
         ELSE <<entry>> \o sorted

RECURSIVE SortByScore(_, _)
SortByScore(sorted, scores) ==
    IF scores = <<>> THEN sorted
    ELSE SortByScore(InsertByScore(sorted, Head(scores)), Tail(scores))

\* variant of SelectGenres: without the cap len(final_genres) < 10
RECURSIVE SelectGenresUncapped(_, _)
SelectGenresUncapped(final, sorted) ==
    IF sorted = <<>> THEN final
    ELSE SelectGenresUncapped(
             IF Head(sorted).score >= MinGenreScore
             THEN Append(final, Head(sorted).genre) ELSE final,
             Tail(sorted))

\* if score >= min_score and len(final_genres) < 10: final_genres.append(genre)
RECURSIVE SelectGenres(_, _)
SelectGenres(final, sorted) ==
    IF sorted = <<>> THEN final
    ELSE SelectGenres(
             IF Head(sorted).score >= MinGenreScore /\ Len(final) < MaxFinalGenres
             THEN Append(final, Head(sorted).genre) ELSE final,
             Tail(sorted))

\* variant of SumWeighted: every source counted as a perfect match
RECURSIVE SumWeights(_)
SumWeights(sources) ==
    IF sources = <<>> THEN 0
    ELSE 20 * Head(sources).weight + SumWeights(Tail(sources))

\* sum of match_quality * weight over the sources
RECURSIVE SumWeighted(_)
SumWeighted(sources) ==
    IF sources = <<>> THEN 0
    ELSE Head(sources).match_quality * Head(sources).weight + SumWeighted(Tail(sources))

Min(a, b) == IF a < b THEN a ELSE b

\* variant of source_count_bonus: without the cap of 15
source_count_bonus_uncapped(n) == Pct((n - 1) * BonusPerSource)

\* min(15, (len(genre_sources) - 1) * 10)
source_count_bonus(n) == Pct(Min(MaxBonus, (n - 1) * BonusPerSource))

\* variant of final_confidence: with a genre coverage bonus of one point per
\* genre of the first source
final_confidence_genre_bonus(sources) ==
    LET n == Len(sources)
        avg_confidence == (SumWeighted(sources) * 60) \div n
    IN Min(Pct(100), avg_confidence + source_count_bonus(n)
                         + Pct(Len(sources[1].genres)))

\* min(100, avg_confidence + source_count_bonus); match_quality (twentieths)
\* * weight (hundredths) * 100 is 60 units of 1/ConfScale
final_confidence(sources) ==
    LET n == Len(sources)
        avg_confidence == (SumWeighted(sources) * 60) \div n
    IN Min(Pct(100), avg_confidence + source_count_bonus(n))

RECURSIVE SourceNames(_)
SourceNames(sources) ==
    IF sources = <<>> THEN <<>>
    ELSE <<Head(sources).source>> \o SourceNames(Tail(sources))

AggregatedGenres(final_genres, confidence, sources_used) ==
    [final_genres |-> final_genres, confidence |-> confidence,
     sources_used |-> sources_used]

aggregate_genres(sources) ==
    IF sources = <<>> THEN AggregatedGenres(<<>>, 0, <<>>)
    ELSE AggregatedGenres(
             SelectGenres(<<>>, SortByScore(<<>>, AccumulateScores(<<>>, sources))),
             final_confidence(sources),
             SourceNames(sources))

-----------------------------------------------------------------------------
(* GenreStandardizer (default genre_config.json), on the genres of the model *)

\* GenreStandardizer.normalize_genre
normalize_genre(genre) ==
    CASE genre = "Progressive Rock" -> "Rock"
      [] genre = "Psychedelic Rock" -> "Rock"
      [] genre = "Hip-Hop" -> "Hip Hop"
      [] OTHER -> genre

\* GenreStandardizer.get_genre_hierarchy
get_genre_hierarchy(genre) == IF genre = "Art Rock" THEN {"Rock"} ELSE {}

\* GenreStandardizer.normalize_genre_list: normalised names plus their
\* parents, without duplicates (the code returns them sorted by name; the
\* model keeps the set)
normalize_genre_list(genres) ==
    LET normalized == {normalize_genre(g) : g \in genres}
    IN normalized \cup UNION {get_genre_hierarchy(g) : g \in normalized}

\* album_info['genres'] of the scanned albums
LocalGenres(a) == IF a.artist = "pink floyd" THEN {"Rock"} ELSE {}

SeqToSet(seq) == {seq[i] : i \in 1..Len(seq)}

-----------------------------------------------------------------------------
(* Matcher.match_album *)

SkipThreshold == 40          \* Matcher.skip_threshold
ReviewThreshold == 70        \* elif confidence >= 70
LowThreshold == 40           \* elif confidence >= 40
HybridMediumThreshold == 50  \* elif hybrid_result.confidence >= 50
DefaultThreshold == 95       \* BatchJob.confidence_threshold
HybridThreshold == 80        \* HybridBatchProcessor confidence_threshold

evaluate_confidence(confidence) ==
    IF confidence >= Pct(SkipThreshold) THEN "needs_review" ELSE "skipped"

MatchResult(genres, genre_confidence, genre_sources_used, overall_confidence, processing_status, matched, match_source) ==
    [genres |-> genres, genre_confidence |-> genre_confidence,
     genre_sources_used |-> genre_sources_used,
     overall_confidence |-> overall_confidence,
     processing_status |-> processing_status,
     matched |-> matched, match_source |-> match_source]

\* the MatchResult of "No album match found in any API"
NoMatchResult == MatchResult(<<>>, 0, <<>>, 0, "skipped", None, "none")

-----------------------------------------------------------------------------
(* Initial state *)

Jobs == [confidence_threshold : {Pct(DefaultThreshold), Pct(75)}, dry_run : BOOLEAN]

HybridRuns == [confidence_threshold : {Pct(HybridThreshold)}, dry_run : BOOLEAN]

\* processed = 0 ... skipped = 0 at the start of run_batch_job
ZeroCounters ==
    [processed |-> 0, successful |-> 0, failed |-> 0, needs_review |-> 0, skipped |-> 0]

\* no batch job has been created or run
InitJobVars ==
    /\ job_queue = <<>>
    /\ job_state = "none"
    /\ job_id = 0
    /\ job_runs = 0
    /\ counters = ZeroCounters
    /\ batch_jobs = <<>>
    /\ album_results = <<>>
    /\ manual_review_queue = <<>>
    /\ run_start = [results |-> 0, queue |-> 0]

-----------------------------------------------------------------------------
(* EnhancedAPIClient: json, APICache and RateLimiter *)

TicksPerSecond == 10

Seconds(s) == s * TicksPerSecond

\* ttl_hours * 3600
Hours(h) == Seconds(h * 3600)

\* Python values are pairs <<type, value>>; a dict is a function from keys
py_none == <<"NoneType", 0>>

py_str_list(seq) == <<"list", [i \in 1..Len(seq) |-> <<"str", seq[i]>>]>>

\* json.dumps: the JSON text as a tree of tokens; an object is the sequence
\* of its members
RECURSIVE json_encode(_)
RECURSIVE json_members(_, _)
json_encode(v) ==
    CASE v[1] = "bool" -> IF v[2] THEN <<"true">> ELSE <<"false">>
      [] v[1] = "NoneType" -> <<"null">>
      [] v[1] = "str" -> <<"string", v[2]>>
      [] v[1] = "int" -> <<"number", v[2], FALSE>>
      [] v[1] = "float" -> <<"number", v[2], TRUE>>
      [] v[1] = "list" -> <<"array", [i \in 1..Len(v[2]) |-> json_encode(v[2][i])]>>
      [] v[1] = "dict" -> <<"object", json_members(v[2], DOMAIN v[2])>>

json_members(d, keys) ==
    IF keys = {} THEN <<>>
    ELSE LET k == CHOOSE x \in keys : TRUE
         IN <<<<k, json_encode(d[k])>>>> \o json_members(d, keys \ {k})

json_dumps(data) == json_members(data, DOMAIN data)

\* json.loads
RECURSIVE json_decode(_)
RECURSIVE json_object(_)
json_decode(t) ==
    CASE t[1] = "true" -> <<"bool", TRUE>>
      [] t[1] = "false" -> <<"bool", FALSE>>
      [] t[1] = "null" -> py_none
      [] t[1] = "string" -> <<"str", t[2]>>
      [] t[1] = "number" -> IF t[3] THEN <<"float", t[2]>> ELSE <<"int", t[2]>>
      [] t[1] = "array" -> <<"list", [i \in 1..Len(t[2]) |-> json_decode(t[2][i])]>>
      [] t[1] = "object" -> <<"dict", json_object(t[2])>>

json_object(members) ==
    [k \in {members[i][1] : i \in 1..Len(members)} |->
        json_decode(members[CHOOSE i \in 1..Len(members) : members[i][1] = k][2])]

json_loads(text) == json_object(text)

\* dict.get(key) and the truth value Python gives the result
dict_get(d, k) == IF k \in DOMAIN d THEN d[k] ELSE py_none

truthy(v) ==
    CASE v[1] = "bool" -> v[2]
      [] v[1] = "NoneType" -> FALSE
      [] OTHER -> TRUE

\* hashlib.md5("|".join(args)).hexdigest()
_cache_key(prefix, artist, album) == <<"md5", <<prefix, artist, album>>>>

\* variant of APICache_get: without the condition expires_at > current_time
APICache_get_expired(cache, key, current_time) ==
    LET rows == {r \in cache : r.key = key}
    IN IF rows = {} THEN None
       ELSE Some(json_loads((CHOOSE r \in rows : TRUE).response))

\* APICache.get: the row of the key that has not expired, decoded
APICache_get(cache, key, current_time) ==
    LET rows == {r \in cache : r.key = key /\ r.expires_at > current_time}
    IN IF rows = {} THEN None
       ELSE Some(json_loads((CHOOSE r \in rows : TRUE).response))

\* APICache.set: INSERT OR REPLACE on the primary key
APICache_set(cache, key, data, current_time, ttl_hours) ==
    {r \in cache : r.key # key}
        \cup {[key |-> key, response |-> json_dumps(data),
               expires_at |-> current_time + Hours(ttl_hours)]}

DefaultTtlHours == 24

\* APICache.log_request
APICache_log_request(log, api_name, current_time) ==
    Append(log, [api_name |-> api_name, timestamp |-> current_time])

\* APICache.get_request_count
get_request_count(log, api_name, current_time, window_seconds) ==
    Cardinality({i \in 1..Len(log) :
                    /\ log[i].api_name = api_name
                    /\ log[i].timestamp > current_time - Seconds(window_seconds)})

\* RateLimiter.limits
RateLimitedApis == {"musicbrainz", "lastfm", "discogs"}

limits(api_name) ==
    CASE api_name = "musicbrainz" -> [requests |-> 50, window |-> 60]
      [] api_name = "lastfm" -> [requests |-> 300, window |-> 60]
      [] api_name = "discogs" -> [requests |-> 60, window |-> 60]

\* variant of rate_limit_reached: current_count > limit
rate_limit_reached_strict(api_name, current_count) ==
    current_count > limits(api_name).requests

\* if current_count >= limit_config['requests']
rate_limit_reached(api_name, current_count) ==
    current_count >= limits(api_name).requests

\* time.sleep(0.1 if api_name == 'lastfm' else 1.0), in ticks
request_delay(api_name) == IF api_name = "lastfm" THEN 1 ELSE Seconds(1)

\* RateLimiter.wait_if_needed: does it sleep the window, and the time it takes
wait_sleeps_window(api_name, log, current_time) ==
    /\ api_name \in RateLimitedApis
    /\ rate_limit_reached(api_name,
           get_request_count(log, api_name, current_time, limits(api_name).window))

wait_if_needed(api_name, log, current_time) ==
    IF api_name \notin RateLimitedApis THEN 0
    ELSE (IF wait_sleeps_window(api_name, log, current_time)
          THEN Seconds(limits(api_name).window) ELSE 0) + request_delay(api_name)

\* the cached marker of a search without result
FailureMarker == [success |-> <<"bool", FALSE>>]

\* dataclass objects: the class and the __dict__ of the instance
AlbumMatchObject(artist, album) ==
    [class |-> "AlbumMatch",
     dict |-> [artist |-> <<"str", artist>>, album |-> <<"str", album>>,
               mbid |-> <<"str", <<"mbid", album>>>>, confidence |-> <<"float", 80>>,
               genres |-> py_str_list(<<"rock">>), year |-> <<"int", 1995>>,
               country |-> py_none, label |-> py_none,
               raw_data |-> <<"dict", [title |-> <<"str", album>>]>>]]

GenreResultObject(source, genres, confidence) ==
    [class |-> "GenreResult",
     dict |-> [genres |-> py_str_list(genres), confidence |-> <<"float", confidence>>,
               source |-> <<"str", source>>,
               raw_data |-> <<"dict", [listeners |-> <<"str", "25000">>]>>]]

\* confidence = min(90, (listeners / 1000) + (len(genres) * 10)), 25000 listeners
lastfm_result(genres) == GenreResultObject("lastfm", genres, Min(90, 25 + Len(genres) * 10))

\* confidence = min(85, len(all_genres) * 15 + 40)
discogs_result(genres) == GenreResultObject("discogs", genres, Min(85, Len(genres) * 15 + 40))

\* return AlbumMatch(**cached) if cached.get('success') else None
from_cached(class, cached) ==
    IF truthy(dict_get(cached, "success"))
    THEN Some([class |-> class, dict |-> cached])
    ELSE None

\* the threads that share the request log
CallerIds == {1, 2}

\* EnhancedAPIClient() with the credentials of cfg, about to be called for api
InitClientState(api, cfg) ==
    /\ now = 0
    /\ api_cache = {}
    /\ rate_limit_log = <<>>
    /\ config = cfg
    /\ network_up = TRUE
    /\ client_api = api
    /\ client_pc = "idle"
    /\ client_album = 0
    /\ client_repeat = FALSE
    /\ client_result = <<>>
    /\ first_result = <<>>
    /\ call_requests = 0
    /\ requests_sent = <<>>
    /\ last_wait = None
    /\ cache_got = None
    /\ cache_stored = {}
    /\ callers = [c \in CallerIds |-> [pc |-> "idle", wake |-> 0, calls |-> 0]]

InitClientVars ==
    InitClientState("musicbrainz", [lastfm_api_key |-> TRUE, discogs_token |-> TRUE])

InitMainVars ==
    /\ apis \in {{"spotify", "musicbrainz"}, {"musicbrainz"}}
    /\ job = [confidence_threshold |-> Pct(DefaultThreshold), dry_run |-> TRUE]
    /\ hybrid_cfg = [confidence_threshold |-> Pct(HybridThreshold), dry_run |-> TRUE]
    /\ pc = "idle"
    /\ flow = "none"
    /\ cur = CHOOSE a \in Library : a.artist = "pink floid"
    /\ all_matches = <<>>
    /\ best_match = None
    /\ fetch_args = None
    /\ genre_sources = <<>>
    /\ aggregated = None
    /\ genre_cache = [k \in CacheKeys |-> <<>>]
    /\ match_result = None
    /\ result = None
    /\ hybrid_db = [k \in {album_key(a) : a \in Library} |-> <<>>]
    /\ alt_sources = <<>>
    /\ alt_aggregated = None
    /\ candidates = {}
    /\ failed_sources = {}
    /\ stored_sources = [k \in CacheKeys |-> <<>>]

Init ==
    /\ InitMainVars
    /\ InitJobVars
    /\ InitClientVars

-----------------------------------------------------------------------------
(* Entry points *)

\* BatchProcessor.process_album up to the call of Matcher.match_album
bp_process_album(a, j) ==
    /\ pc = "idle"
    /\ pc' = "search_spotify"
    /\ flow' = "batch"
    /\ cur' = a
    /\ job' = j
    /\ all_matches' = <<>>
    /\ best_match' = None
    /\ fetch_args' = None
    /\ genre_sources' = <<>>
    /\ aggregated' = None
    /\ match_result' = None
    /\ result' = None
    /\ candidates' = {}
    /\ failed_sources' = {}
    /\ UNCHANGED <<apis, hybrid_cfg, genre_cache, hybrid_db, alt_sources, alt_aggregated,
                   stored_sources, jobvars, clientvars>>

\* status_map of process_album: the stored status of a result
status_map(status, files_updated) ==
    CASE status = "high_confidence" ->
             IF files_updated > 0 THEN "completed" ELSE "needs_review"
      [] status = "medium_confidence" -> "needs_review"
      [] status = "low_confidence" -> "needs_review"
      [] status = "no_match" -> "failed"
      [] status = "error" -> "failed"
      [] OTHER -> status

\* _save_processing_result: INSERT OR REPLACE by album_key
SavedRow(res) ==
    [status |-> status_map(res.status, res.files_updated),
     confidence |-> res.confidence, files_updated |-> res.files_updated,
     final_genres |-> res.final_genres]

\* the check made on the status of the result instead of the stored status
_is_album_already_processed_unmapped(key) ==
    /\ hybrid_db[key] # <<>>
    /\ hybrid_db[key][1].status = "high_confidence"
    /\ hybrid_db[key][1].files_updated > 0

_is_album_already_processed(key) ==
    /\ hybrid_db[key] # <<>>
    /\ hybrid_db[key][1].status = "completed"
    /\ hybrid_db[key][1].files_updated > 0

HybridResult(a, status, confidence, files_updated, final_genres) ==
    [album_key |-> album_key(a), status |-> status, confidence |-> confidence,
     files_updated |-> files_updated, final_genres |-> final_genres]

\* HybridBatchProcessor.process_album up to the call of fetch_all_sources,
\* or its early return for an album already processed.  check_raised: the
\* SELECT of _is_album_already_processed raised; the call is inside the try
\* block, so the except branch sets status 'error' and the result is saved.
hybrid_process_album(a, run, check_raised) ==
    /\ pc = "idle"
    /\ flow' = "hybrid"
    /\ cur' = a
    /\ hybrid_cfg' = run
    /\ all_matches' = <<>>
    /\ best_match' = None
    /\ genre_sources' = <<>>
    /\ aggregated' = None
    /\ match_result' = None
    /\ IF check_raised
       THEN /\ result' = Some(HybridResult(a, "error", 0, 0, {}))
            /\ hybrid_db' = [hybrid_db EXCEPT ![album_key(a)] = <<SavedRow(result'[1])>>]
            /\ fetch_args' = None
            /\ pc' = "idle"
       ELSE IF _is_album_already_processed(album_key(a))
       THEN /\ result' = Some(HybridResult(a, "skipped_already_processed", 0, 0, {}))
            /\ fetch_args' = None
            /\ pc' = "idle"
            /\ UNCHANGED hybrid_db
       ELSE /\ result' = None
            /\ fetch_args' = Some([artist |-> a.artist, album |-> a.album])
            /\ pc' = "fetch_spotify"
            /\ UNCHANGED hybrid_db
    /\ UNCHANGED <<apis, job, genre_cache, alt_sources, alt_aggregated, candidates,
                   failed_sources, stored_sources, jobvars, clientvars>>

\* Matcher.match_genres_only up to the fetch
match_genres_only(a) ==
    /\ pc = "idle"
    /\ flow' = "genres_only"
    /\ cur' = a
    /\ all_matches' = <<>>
    /\ best_match' = None
    /\ genre_sources' = <<>>
    /\ aggregated' = None
    /\ match_result' = None
    /\ result' = None
    /\ fetch_args' = Some([artist |-> a.artist, album |-> a.album])
    /\ pc' = "fetch_spotify"
    /\ UNCHANGED <<apis, job, hybrid_cfg, genre_cache, hybrid_db, alt_sources, alt_aggregated, candidates,
                   failed_sources, stored_sources, jobvars, clientvars>>

-----------------------------------------------------------------------------
(* Matcher.find_best_album_match, one step per source *)

search_spotify(response) ==
    /\ pc = "search_spotify"
    /\ all_matches' = all_matches \o _search_spotify_albums(cur.artist, cur.album, response)
    /\ candidates' = candidates \cup candidate_scores("spotify", cur.artist, cur.album, response)
    /\ failed_sources' = failed_sources \cup
           (IF search_failed("spotify", response) THEN {"spotify"} ELSE {})
    /\ pc' = "search_musicbrainz"
    /\ UNCHANGED <<apis, job, hybrid_cfg, flow, cur, best_match, fetch_args,
                   genre_sources, aggregated, genre_cache, match_result, result,
                   hybrid_db, alt_sources, alt_aggregated,
                   stored_sources, jobvars, clientvars>>

search_musicbrainz(response) ==
    /\ pc = "search_musicbrainz"
    /\ all_matches' = all_matches \o _search_musicbrainz_albums(cur.artist, cur.album, response)
    /\ candidates' = candidates \cup candidate_scores("musicbrainz", cur.artist, cur.album, response)
    /\ failed_sources' = failed_sources \cup
           (IF search_failed("musicbrainz", response) THEN {"musicbrainz"} ELSE {})
    /\ pc' = "search_deezer"
    /\ UNCHANGED <<apis, job, hybrid_cfg, flow, cur, best_match, fetch_args,
                   genre_sources, aggregated, genre_cache, match_result, result,
                   hybrid_db, alt_sources, alt_aggregated,
                   stored_sources, jobvars, clientvars>>

\* the Deezer search and the selection of the best match
find_best_album_match ==
    /\ pc = "search_deezer"
    /\ LET matches == all_matches \o _search_deezer_albums(cur.artist, cur.album)
       IN /\ all_matches' = matches
          /\ best_match' = select_best(matches)
    /\ pc' = "matched"
    /\ UNCHANGED <<apis, job, hybrid_cfg, flow, cur, fetch_args,
                   genre_sources, aggregated, genre_cache, match_result, result,
                   hybrid_db, alt_sources, alt_aggregated, candidates,
                   failed_sources, stored_sources, jobvars, clientvars>>

\* match_album after step 1: the early return without a match, or the call
\* of fetch_all_sources with the matched artist and album
match_album_matched ==
    /\ pc = "matched"
    /\ IF best_match = None
       THEN /\ match_result' = Some(NoMatchResult)
            /\ fetch_args' = None
            /\ pc' = "bp_finish"
       ELSE /\ match_result' = None
            /\ fetch_args' = Some([artist |-> best_match[1].artist,
                                   album |-> best_match[1].album])
            /\ pc' = "fetch_spotify"
    /\ all_matches' = <<>>
    /\ candidates' = {}
    /\ failed_sources' = {}
    /\ UNCHANGED <<apis, job, hybrid_cfg, flow, cur, best_match,
                   genre_sources, aggregated, genre_cache, result,
                   hybrid_db, alt_sources, alt_aggregated,
                   stored_sources, jobvars, clientvars>>

-----------------------------------------------------------------------------
(* HybridGenreFetcher.fetch_all_sources, one step per fetcher *)

\* the result of one fetcher: appended to genre_sources when there is one,
\* and written to the cache by cache_result when it was fetched fresh
ApplyOutcome(source, outcome) ==
    /\ genre_sources' = IF outcome.source = None THEN genre_sources
                        ELSE Append(genre_sources, outcome.source[1])
    /\ genre_cache' =
           IF outcome.store
           THEN [genre_cache EXCEPT
                    ![get_cache_key(fetch_args[1].artist, fetch_args[1].album, source)] =
                        <<cache_row(outcome.source[1])>>]
           ELSE genre_cache
    /\ stored_sources' =
           IF outcome.store
           THEN [stored_sources EXCEPT
                    ![get_cache_key(fetch_args[1].artist, fetch_args[1].album, source)] =
                        <<outcome.source[1]>>]
           ELSE stored_sources

fetch_spotify(response, details_ok) ==
    /\ pc = "fetch_spotify"
    /\ ApplyOutcome("spotify",
           fetch_spotify_genres(fetch_args[1].artist, fetch_args[1].album,
                                response, details_ok))
    /\ pc' = "fetch_musicbrainz"
    /\ UNCHANGED <<apis, job, hybrid_cfg, flow, cur, all_matches, best_match,
                   fetch_args, aggregated, match_result, result, hybrid_db, alt_sources, alt_aggregated, candidates,
                   failed_sources, jobvars, clientvars>>

fetch_musicbrainz(response, details_ok, artist_ok) ==
    /\ pc = "fetch_musicbrainz"
    /\ ApplyOutcome("musicbrainz",
           fetch_musicbrainz_genres(fetch_args[1].artist, fetch_args[1].album,
                                    response, details_ok, artist_ok))
    /\ pc' = "fetch_deezer"
    /\ UNCHANGED <<apis, job, hybrid_cfg, flow, cur, all_matches, best_match,
                   fetch_args, aggregated, match_result, result, hybrid_db, alt_sources, alt_aggregated, candidates,
                   failed_sources, jobvars, clientvars>>

fetch_deezer(response, details_ok) ==
    /\ pc = "fetch_deezer"
    /\ ApplyOutcome("deezer",
           fetch_deezer_genres(fetch_args[1].artist, fetch_args[1].album,
                               response, details_ok))
    /\ pc' = "aggregate"
    /\ UNCHANGED <<apis, job, hybrid_cfg, flow, cur, all_matches, best_match,
                   fetch_args, aggregated, match_result, result, hybrid_db, alt_sources, alt_aggregated, candidates,
                   failed_sources, jobvars, clientvars>>

\* return self.aggregate_genres(genre_sources); match_genres_only returns it
\* to its caller
fetch_all_sources_return ==
    /\ pc = "aggregate"
    /\ aggregated' = Some(aggregate_genres(genre_sources))
    /\ pc' = CASE flow = "batch" -> "match_build"
               [] flow = "hybrid" -> "hybrid_finish"
               [] OTHER -> "idle"
    /\ genre_sources' = <<>>
    /\ fetch_args' = None
    /\ UNCHANGED <<apis, job, hybrid_cfg, flow, cur, all_matches, best_match,
                   genre_cache, match_result, result,
                   hybrid_db, alt_sources, alt_aggregated, candidates,
                   failed_sources, stored_sources, jobvars, clientvars>>

\* match_album step 3: the MatchResult of a matched album
match_album_return ==
    /\ pc = "match_build"
    /\ LET overall == ScoreToConfidence(best_match[1].match_score)
       IN match_result' = Some(MatchResult(aggregated[1].final_genres,
                                   aggregated[1].confidence,
                                   aggregated[1].sources_used,
                                   overall, evaluate_confidence(overall),
                                   best_match, best_match[1].source))
    /\ pc' = "bp_finish"
    /\ UNCHANGED <<apis, job, hybrid_cfg, flow, cur, all_matches, best_match,
                   fetch_args, genre_sources, aggregated, genre_cache, result,
                   hybrid_db, alt_sources, alt_aggregated, candidates,
                   failed_sources, stored_sources, jobvars, clientvars>>

-----------------------------------------------------------------------------
(* BatchProcessor.process_album after match_album *)

AlbumProcessingResult(a, status, confidence, files_updated, reason, error, suggested_genres, sources_used) ==
    [album_key |-> album_key(a), status |-> status, confidence |-> confidence,
     files_updated |-> files_updated, manual_review_reason |-> reason,
     error |-> error, suggested_genres |-> suggested_genres,
     sources_used |-> sources_used]

\* variant of process_album_result: the medium band starts at 80
process_album_result_shifted(a, mr, confidence_threshold, dry_run, written) ==
    LET confidence == mr.genre_confidence
    IN IF confidence >= confidence_threshold
       THEN AlbumProcessingResult(a, "completed", confidence,
                IF dry_run THEN 0 ELSE written, "none", FALSE,
                mr.genres, mr.genre_sources_used)
       ELSE IF confidence >= Pct(80)
       THEN AlbumProcessingResult(a, "needs_review", confidence, 0, "medium",
                FALSE, mr.genres, mr.genre_sources_used)
       ELSE IF confidence >= Pct(LowThreshold)
       THEN AlbumProcessingResult(a, "needs_review", confidence, 0, "low",
                FALSE, mr.genres, mr.genre_sources_used)
       ELSE AlbumProcessingResult(a, "skipped", confidence, 0, "very_low",
                FALSE, mr.genres, mr.genre_sources_used)

\* the confidence bands; written is what _update_album_files would return
process_album_result(a, mr, confidence_threshold, dry_run, written) ==
    LET confidence == mr.genre_confidence
    IN IF confidence >= confidence_threshold
       THEN AlbumProcessingResult(a, "completed", confidence,
                IF dry_run THEN 0 ELSE written, "none", FALSE,
                mr.genres, mr.genre_sources_used)
       ELSE IF confidence >= Pct(ReviewThreshold)
       THEN AlbumProcessingResult(a, "needs_review", confidence, 0, "medium",
                FALSE, mr.genres, mr.genre_sources_used)
       ELSE IF confidence >= Pct(LowThreshold)
       THEN AlbumProcessingResult(a, "needs_review", confidence, 0, "low",
                FALSE, mr.genres, mr.genre_sources_used)
       ELSE AlbumProcessingResult(a, "skipped", confidence, 0, "very_low",
                FALSE, mr.genres, mr.genre_sources_used)

\* the except branch of process_album
failed_result(a) ==
    AlbumProcessingResult(a, "failed", 0, 0, "none", TRUE, <<>>, <<>>)

\* the rest of process_album; raised: normalize_genre_list or _merge_genres
\* raised
bp_process_album_return(raised, written) ==
    /\ pc = "bp_finish"
    /\ result' = IF raised THEN Some(failed_result(cur))
                 ELSE Some(process_album_result(cur, match_result[1],
                               job.confidence_threshold, job.dry_run, written))
    /\ pc' = "idle"
    /\ UNCHANGED <<apis, job, hybrid_cfg, flow, cur, all_matches, best_match,
                   fetch_args, genre_sources, aggregated, genre_cache,
                   match_result, hybrid_db, alt_sources, alt_aggregated, candidates,
                   failed_sources, stored_sources, jobvars, clientvars>>

-----------------------------------------------------------------------------
(* HybridBatchProcessor.process_album after fetch_all_sources *)

hybrid_status(confidence, confidence_threshold) ==
    IF confidence >= confidence_threshold THEN "high_confidence"
    ELSE IF confidence >= Pct(HybridMediumThreshold) THEN "medium_confidence"
    ELSE IF confidence > 0 THEN "low_confidence"
    ELSE "no_match"

\* raised: normalize_genre_list raised; save_raised: the save of a successful
\* update (if result['files_updated'] > 0: _save_processing_result(...)), still
\* inside the try block, raised.  The except branch sets only the status.
hybrid_result(a, agg, run, raised, save_raised, written) ==
    IF raised THEN HybridResult(a, "error", agg.confidence, 0, {})
    ELSE LET final_standardized ==
                 normalize_genre_list(LocalGenres(a) \cup SeqToSet(agg.final_genres))
             status == hybrid_status(agg.confidence, run.confidence_threshold)
             files_updated ==
                 IF status = "high_confidence" /\ ~run.dry_run /\ final_standardized # {}
                 THEN written ELSE 0
         IN HybridResult(a, IF save_raised /\ files_updated > 0 THEN "error" ELSE status,
                         agg.confidence, files_updated, final_standardized)

\* the rest of process_album
hybrid_process_album_return(raised, save_raised, written) ==
    /\ pc = "hybrid_finish"
    /\ LET res == hybrid_result(cur, aggregated[1], hybrid_cfg, raised, save_raised, written)
       IN /\ result' = Some(res)
          /\ hybrid_db' = [hybrid_db EXCEPT ![album_key(cur)] = <<SavedRow(res)>>]
    /\ pc' = "idle"
    /\ UNCHANGED <<apis, job, hybrid_cfg, flow, cur, all_matches, best_match,
                   fetch_args, genre_sources, aggregated, genre_cache,
                   match_result, alt_sources, alt_aggregated, candidates,
                   failed_sources, stored_sources, jobvars, clientvars>>

-----------------------------------------------------------------------------
(* The TTL of a cache row elapses: the row no longer satisfies                *)
(* expires_at > datetime('now') and is not selected any more                  *)

cache_expire(k) ==
    /\ pc = "idle"
    /\ genre_cache[k] # <<>>
    /\ genre_cache' = [genre_cache EXCEPT ![k] = <<>>]
    /\ stored_sources' = [stored_sources EXCEPT ![k] = <<>>]
    /\ UNCHANGED <<apis, job, hybrid_cfg, pc, flow, cur, all_matches, best_match,
                   fetch_args, genre_sources, aggregated, match_result, result,
                   hybrid_db, alt_sources, alt_aggregated, candidates,
                   failed_sources, jobvars, clientvars>>

-----------------------------------------------------------------------------

\* the steps of fetch_all_sources, shared by every flow
FetchSteps ==
    \/ \E response \in FlowResponses, details_ok \in BOOLEAN :
           fetch_spotify(response, details_ok)
    \/ \E response \in FlowResponses, details_ok \in BOOLEAN, artist_ok \in BOOLEAN :
           fetch_musicbrainz(response, details_ok, artist_ok)
    \/ \E response \in FlowResponses, details_ok \in BOOLEAN :
           fetch_deezer(response, details_ok)
    \/ fetch_all_sources_return
    \/ \E k \in CacheKeys : cache_expire(k)

\* BatchProcessor over the library
Next ==
    \/ \E a \in Library, j \in Jobs : bp_process_album(a, j)
    \/ \E response \in FlowResponses : search_spotify(response)
    \/ \E response \in FlowResponses : search_musicbrainz(response)
    \/ find_best_album_match
    \/ match_album_matched
    \/ FetchSteps
    \/ match_album_return
    \/ \E raised \in BOOLEAN, written \in 0..MaxTracks :
           bp_process_album_return(raised, written)

Spec == Init /\ [][Next]_vars

\* HybridBatchProcessor and Matcher.match_genres_only over the library
NextHybrid ==
    \/ \E a \in HybridSample, run \in HybridRuns, check_raised \in BOOLEAN :
           hybrid_process_album(a, run, check_raised)
    \/ \E a \in HybridSample : match_genres_only(a)
    \/ FetchSteps
    \/ \E raised \in BOOLEAN, save_raised \in BOOLEAN, written \in 0..MaxTracks :
           hybrid_process_album_return(raised, save_raised, written)

SpecHybrid == Init /\ [][NextHybrid]_vars

-----------------------------------------------------------------------------
(* BatchProcessor.run_batch_job: the loop over the albums of a job *)

MaxJobs == 1         \* jobs created by create_processing_job
MaxRuns == 2         \* calls of run_batch_job

\* the album_keys cmd_batch takes from analyze_library_for_processing: lists of
\* library albums without repetition
JobAlbumLists ==
    {<<a>> : a \in Library} \cup {l \in [1..2 -> Library] : l[1] # l[2]}

\* the album_keys of a POST /api/batch/create request: any list of keys
RequestAlbumLists ==
    {<<a>> : a \in Library} \cup [1..2 -> Library]

\* list(matcher.albums.keys())[:10], the album_keys of api_run_batch_job
LibraryKeys ==
    <<CHOOSE a \in Library : a.artist = "pink floid",
      CHOOSE a \in Library : a.artist = "pink floyd">>

\* the API answers during a job: a transport error or the exact release
JobResponses ==
    {r \in FlowResponses : r.error \/ r.items = <<Album("pink floyd", "pulse")>>}

\* the jobs created: create_processing_job with the default threshold
JobConfigs == {j \in Jobs : j.confidence_threshold = Pct(DefaultThreshold)}

\* the row create_job inserts into batch_jobs; the counters take their
\* column default 0
batch_job_row(j, album_keys) ==
    [confidence_threshold |-> j.confidence_threshold, dry_run |-> j.dry_run,
     total_albums |-> Len(album_keys), processed |-> 0, successful |-> 0,
     failed |-> 0, needs_review |-> 0, skipped |-> 0]

\* create_processing_job(name, album_keys, confidence_threshold, dry_run)
create_processing_job(j, album_keys) ==
    /\ pc = "idle"
    /\ job_state # "running"
    /\ Len(batch_jobs) < MaxJobs
    /\ batch_jobs' = Append(batch_jobs, batch_job_row(j, album_keys))
    /\ UNCHANGED <<mainvars, clientvars, job_queue, job_state, job_id, job_runs,
                   counters, album_results, manual_review_queue, run_start>>

\* the row save_album_result inserts into album_results
album_result_row(id, res) ==
    [job_id |-> id, album_key |-> res.album_key, status |-> res.status,
     files_updated |-> res.files_updated]

\* a save that replaces the row of the same job and album (INSERT OR REPLACE
\* under a unique key) instead of adding one
save_album_result_replace(rows, id, res) ==
    Append(SelectSeq(rows, LAMBDA row : ~(row.job_id = id /\ row.album_key = res.album_key)),
           album_result_row(id, res))

\* save_album_result: INSERT INTO album_results, committed at once
save_album_result(rows, id, res) ==
    Append(rows, album_result_row(id, res))

\* the row add_to_review_queue inserts into manual_review_queue
review_queue_row(id, res) ==
    [job_id |-> id, album_key |-> res.album_key]

\* update_job_progress: UPDATE batch_jobs SET processed = ?, ... WHERE job_id = ?
update_job_progress(jobs, id, c) ==
    [jobs EXCEPT ![id] = [@ EXCEPT !.processed = c.processed,
                                   !.successful = c.successful,
                                   !.failed = c.failed,
                                   !.needs_review = c.needs_review,
                                   !.skipped = c.skipped]]

\* run_batch_job(job_id, album_keys) up to the loop, on the table jobs:
\* get_job_status and the counters
run_batch_job_on(jobs, id, album_keys) ==
    /\ pc = "idle"
    /\ job_state # "running"
    /\ job_runs < MaxRuns
    /\ batch_jobs' = jobs
    /\ job' = [confidence_threshold |-> jobs[id].confidence_threshold,
               dry_run |-> jobs[id].dry_run]
    /\ job_id' = id
    /\ job_runs' = job_runs + 1
    /\ counters' = ZeroCounters
    /\ job_queue' = album_keys
    /\ job_state' = "running"
    /\ run_start' = [results |-> Len(album_results), queue |-> Len(manual_review_queue)]
    /\ result' = None
    /\ UNCHANGED <<apis, hybrid_cfg, pc, flow, cur, all_matches, best_match,
                   fetch_args, genre_sources, aggregated, genre_cache,
                   match_result, hybrid_db, alt_sources, alt_aggregated, candidates,
                   failed_sources, stored_sources, album_results,
                   manual_review_queue, clientvars>>

\* the loop body up to the call: result = self.process_album(album_key, ...)
run_batch_job_process_album ==
    /\ job_state = "running"
    /\ job_queue # <<>>
    /\ result = None
    /\ bp_process_album(Head(job_queue), job)

\* the counter update without its last branch: a skipped album is counted as
\* processed only
update_counters_no_skipped(c, status) ==
    LET p == [c EXCEPT !.processed = @ + 1]
    IN CASE status = "completed" -> [p EXCEPT !.successful = @ + 1]
         [] status = "failed" -> [p EXCEPT !.failed = @ + 1]
         [] status = "needs_review" -> [p EXCEPT !.needs_review = @ + 1]
         [] OTHER -> p

\* the counter update with an album for review counted as skipped
update_counters_review_as_skipped(c, status) ==
    LET p == [c EXCEPT !.processed = @ + 1]
    IN CASE status = "completed" -> [p EXCEPT !.successful = @ + 1]
         [] status = "failed" -> [p EXCEPT !.failed = @ + 1]
         [] status \in {"needs_review", "skipped"} -> [p EXCEPT !.skipped = @ + 1]
         [] OTHER -> p

\* Update counters: processed += 1 and the counter of the result's status
update_counters(c, status) ==
    LET p == [c EXCEPT !.processed = @ + 1]
    IN CASE status = "completed" -> [p EXCEPT !.successful = @ + 1]
         [] status = "failed" -> [p EXCEPT !.failed = @ + 1]
         [] status = "needs_review" -> [p EXCEPT !.needs_review = @ + 1]
         [] status = "skipped" -> [p EXCEPT !.skipped = @ + 1]
         [] OTHER -> p

\* the database calls of the loop body, in the order of the code
DbCalls == <<"add_to_review_queue", "save_album_result", "update_job_progress">>

\* position of a database call in the loop body; 4 for "none"
db_call_index(call) ==
    IF \E i \in 1..Len(DbCalls) : DbCalls[i] = call
    THEN CHOOSE i \in 1..Len(DbCalls) : DbCalls[i] = call
    ELSE Len(DbCalls) + 1

\* the local variables of process_album and of the calls it made end with the
\* call
process_album_frame_dropped ==
    /\ all_matches' = <<>>
    /\ best_match' = None
    /\ fetch_args' = None
    /\ genre_sources' = <<>>
    /\ aggregated' = None
    /\ match_result' = None
    /\ result' = None
    /\ candidates' = {}
    /\ failed_sources' = {}

\* the loop body after the call: counters, add_to_review_queue,
\* save_album_result, update_job_progress.  None of them is inside a try
\* block: when the call `stopped` raises or is interrupted, the calls before
\* it have committed, and the exception leaves run_batch_job with state how.
run_batch_job_save(stopped, how) ==
    /\ job_state = "running"
    /\ pc = "idle"
    /\ result # None
    /\ stopped = "add_to_review_queue" => result[1].status = "needs_review"
    /\ counters' = update_counters(counters, result[1].status)
    /\ manual_review_queue' =
           IF result[1].status = "needs_review" /\ db_call_index(stopped) > 1
           THEN Append(manual_review_queue, review_queue_row(job_id, result[1]))
           ELSE manual_review_queue
    /\ album_results' =
           IF db_call_index(stopped) > 2
           THEN save_album_result(album_results, job_id, result[1])
           ELSE album_results
    /\ batch_jobs' =
           IF db_call_index(stopped) > 3
           THEN update_job_progress(batch_jobs, job_id, counters')
           ELSE batch_jobs
    /\ IF stopped = "none"
       THEN /\ job_queue' = Tail(job_queue)
            /\ UNCHANGED job_state
       ELSE /\ job_state' = how
            /\ UNCHANGED job_queue
    /\ process_album_frame_dropped
    /\ UNCHANGED <<apis, job, hybrid_cfg, pc, flow, cur, genre_cache, hybrid_db,
                   alt_sources, alt_aggregated, stored_sources, job_id, job_runs,
                   run_start, clientvars>>

\* KeyboardInterrupt between two albums or while process_album runs: it is
\* not an Exception, so process_album does not catch it, and cmd_batch prints
\* a message
run_batch_job_interrupt ==
    /\ job_state = "running"
    /\ result = None
    /\ job_state' = "interrupted"
    /\ pc' = "idle"
    /\ process_album_frame_dropped
    /\ UNCHANGED <<apis, job, hybrid_cfg, flow, cur, genre_cache, hybrid_db,
                   alt_sources, alt_aggregated, stored_sources, job_queue, job_id,
                   job_runs, counters, batch_jobs, album_results,
                   manual_review_queue, run_start, clientvars>>

\* the end of the loop: return final_job
run_batch_job_return ==
    /\ job_state = "running"
    /\ pc = "idle"
    /\ job_queue = <<>>
    /\ result = None
    /\ job_state' = "returned"
    /\ UNCHANGED <<apis, job, hybrid_cfg, pc, flow, cur, all_matches, best_match,
                   fetch_args, genre_sources, aggregated, genre_cache,
                   match_result, result, hybrid_db, alt_sources, alt_aggregated,
                   candidates, failed_sources, stored_sources, job_queue, job_id,
                   job_runs, counters, batch_jobs, album_results,
                   manual_review_queue, run_start, clientvars>>

\* MusicLibraryProcessor.cmd_batch: create_processing_job followed by
\* run_batch_job on the same album_keys
cmd_batch(j, album_keys) ==
    /\ Len(batch_jobs) < MaxJobs
    /\ run_batch_job_on(Append(batch_jobs, batch_job_row(j, album_keys)),
                        Len(batch_jobs) + 1, album_keys)

\* web_interface.api_create_batch_job
api_create_batch_job(j, album_keys) ==
    create_processing_job(j, album_keys)

\* web_interface.api_run_batch_job: 404 for an unknown job, otherwise
\* run_batch_job on the first keys of the library
api_run_batch_job(id) ==
    /\ id \in 1..Len(batch_jobs)
    /\ run_batch_job_on(batch_jobs, id, LibraryKeys)

\* the steps of run_batch_job after its entry
JobSteps ==
    \/ run_batch_job_process_album
    \/ \E response \in JobResponses : search_spotify(response)
    \/ \E response \in JobResponses : search_musicbrainz(response)
    \/ find_best_album_match
    \/ match_album_matched
    \/ \E response \in JobResponses, details_ok \in BOOLEAN :
           fetch_spotify(response, details_ok)
    \/ \E response \in JobResponses, details_ok \in BOOLEAN, artist_ok \in BOOLEAN :
           fetch_musicbrainz(response, details_ok, artist_ok)
    \/ \E response \in JobResponses, details_ok \in BOOLEAN :
           fetch_deezer(response, details_ok)
    \/ fetch_all_sources_return
    \/ match_album_return
    \/ \E raised \in BOOLEAN, written \in 0..MaxTracks :
           bp_process_album_return(raised, written)
    \/ \E stopped \in {"none"} \cup SeqToSet(DbCalls), how \in {"raised", "interrupted"} :
           run_batch_job_save(stopped, how)
    \/ run_batch_job_interrupt
    \/ run_batch_job_return

NextJob ==
    \/ \E j \in JobConfigs, album_keys \in JobAlbumLists : cmd_batch(j, album_keys)
    \/ JobSteps

SpecJob == Init /\ [][NextJob]_vars

NextWeb ==
    \/ \E j \in JobConfigs, album_keys \in RequestAlbumLists :
           api_create_batch_job(j, album_keys)
    \/ \E id \in 1..MaxJobs : api_run_batch_job(id)
    \/ JobSteps

SpecWeb == Init /\ [][NextWeb]_vars

-----------------------------------------------------------------------------
(* APICache.set and APICache.get called on their own *)

MaxClockHours == 3   \* the clock stops after this many hours

\* the clock advances in steps of half an hour
ClockStep == Seconds(1800)

CacheTestKeys ==
    {_cache_key("mb_release", "pink floyd", 1), _cache_key("lastfm", "pink floyd", 1)}

\* the dicts the client stores
CacheTestData ==
    {FailureMarker, AlbumMatchObject("pink floyd", 1).dict,
     lastfm_result(<<"rock", "progressive rock">>).dict}

CacheTestTtls == {1, 2}

InitCache ==
    /\ Init
    /\ apis = {"musicbrainz"}

cache_set(key, data, ttl_hours) ==
    /\ api_cache' = APICache_set(api_cache, key, data, now, ttl_hours)
    /\ cache_stored' = {st \in cache_stored : st.key # key}
           \cup {[key |-> key, data |-> data, set_at |-> now, ttl_hours |-> ttl_hours]}
    /\ cache_got' = None
    /\ UNCHANGED <<mainvars, jobvars, callers, now, rate_limit_log, config, network_up,
                   client_api, client_pc, client_album, client_repeat,
                   client_result, first_result, call_requests, requests_sent,
                   last_wait>>

cache_get(key) ==
    /\ cache_got' = Some([key |-> key, at |-> now,
                          value |-> APICache_get(api_cache, key, now)])
    /\ UNCHANGED <<mainvars, jobvars, callers, now, api_cache, rate_limit_log, config,
                   network_up, client_api, client_pc, client_album, client_repeat,
                   client_result, first_result, call_requests, requests_sent,
                   last_wait, cache_stored>>

\* time passes between two calls
clock_advance ==
    /\ now + ClockStep <= Hours(MaxClockHours)
    /\ now' = now + ClockStep
    /\ UNCHANGED <<mainvars, jobvars, callers, api_cache, rate_limit_log, config,
                   network_up, client_api, client_pc, client_album, client_repeat,
                   client_result, first_result, call_requests, requests_sent,
                   last_wait, cache_got, cache_stored>>

NextCache ==
    \/ \E key \in CacheTestKeys, data \in CacheTestData, ttl_hours \in CacheTestTtls :
           cache_set(key, data, ttl_hours)
    \/ \E key \in CacheTestKeys : cache_get(key)
    \/ clock_advance

SpecCache == InitCache /\ [][NextCache]_vars

-----------------------------------------------------------------------------
(* EnhancedAPIClient: search_musicbrainz_release, search_lastfm_genres and
   search_discogs_genres, called for the albums 1, 2, ... of a library *)

ExtraAlbums == 2     \* albums searched beyond the request limit of the API

MaxAlbums(api) == limits(api).requests + ExtraAlbums

ClientApis == {"musicbrainz", "lastfm", "discogs"}

ClientConfigs == {[lastfm_api_key |-> b, discogs_token |-> b] : b \in BOOLEAN}

ClientArtist == "pink floyd"

\* the remote catalogues know the albums with an odd number
catalogue_has(album) == album % 2 = 1

has_credentials(api, cfg) ==
    CASE api = "lastfm" -> cfg.lastfm_api_key
      [] api = "discogs" -> cfg.discogs_token
      [] OTHER -> TRUE

cache_prefix(api) == IF api = "musicbrainz" THEN "mb_release" ELSE api

result_class(api) == IF api = "musicbrainz" THEN "AlbumMatch" ELSE "GenreResult"

InitClient ==
    /\ InitMainVars
    /\ apis = {"musicbrainz"}
    /\ InitJobVars
    /\ \E api \in ClientApis, cfg \in ClientConfigs :
           /\ api = "musicbrainz" => cfg.lastfm_api_key
           /\ InitClientState(api, cfg)

\* return value: the call is over
client_return(value, repeat) ==
    /\ client_result' = Some([value |-> value])
    /\ client_pc' = "idle"
    /\ first_result' = IF repeat THEN first_result ELSE Some([value |-> value])

\* the head of a search method: credentials, cache lookup
client_search(album) ==
    /\ client_pc = "idle"
    /\ album \in {client_album, client_album + 1} \cap (1..MaxAlbums(client_api))
    /\ client_album' = album
    /\ client_repeat' = (album = client_album)
    /\ call_requests' = 0
    /\ LET cached == APICache_get(api_cache,
                         _cache_key(cache_prefix(client_api), ClientArtist, album), now)
       IN IF ~has_credentials(client_api, config)
          THEN client_return(None, album = client_album)
          ELSE IF cached # None /\ DOMAIN cached[1] # {}
          THEN client_return(from_cached(result_class(client_api), cached[1]),
                             album = client_album)
          ELSE /\ client_pc' = "wait_if_needed"
               /\ client_result' = <<>>
               /\ first_result' = IF album = client_album THEN first_result ELSE <<>>
    /\ UNCHANGED <<mainvars, jobvars, callers, now, api_cache, rate_limit_log, config,
                   network_up, client_api, requests_sent, last_wait, cache_got,
                   cache_stored>>

\* self.rate_limiter.wait_if_needed(api), before the search and before the
\* MusicBrainz release lookup
client_wait_if_needed ==
    /\ client_pc \in {"wait_if_needed", "details_wait_if_needed"}
    /\ last_wait' = Some([at |-> now,
                          slept |-> wait_sleeps_window(client_api, rate_limit_log, now)])
    /\ now' = now + wait_if_needed(client_api, rate_limit_log, now)
    /\ client_pc' = IF client_pc = "wait_if_needed" THEN "request" ELSE "details_request"
    /\ UNCHANGED <<mainvars, jobvars, callers, api_cache, rate_limit_log, config, network_up,
                   client_api, client_album, client_repeat, client_result,
                   first_result, call_requests, requests_sent, cache_got,
                   cache_stored>>

\* the object built from a response that holds the album
found_result(api, album) ==
    CASE api = "lastfm" -> lastfm_result(<<"rock", "progressive rock">>)
      [] api = "discogs" -> discogs_result(<<"Rock", "Prog Rock">>)

\* the search request and the rest of the method.  A request that raises is
\* not logged: log_request follows the call inside the try block.
client_request ==
    /\ client_pc = "request"
    /\ requests_sent' = Append(requests_sent, now)
    /\ call_requests' = call_requests + 1
    /\ LET key == _cache_key(cache_prefix(client_api), ClientArtist, client_album)
           failure == APICache_set(api_cache, key, FailureMarker, now, DefaultTtlHours)
       IN IF ~network_up
          THEN /\ UNCHANGED rate_limit_log
               /\ api_cache' = failure
               /\ client_return(None, client_repeat)
          ELSE /\ rate_limit_log' = APICache_log_request(rate_limit_log, client_api, now)
               /\ IF ~catalogue_has(client_album)
                  THEN /\ api_cache' = failure
                       /\ client_return(None, client_repeat)
                  ELSE IF client_api = "musicbrainz"
                  THEN /\ client_pc' = "details_wait_if_needed"
                       /\ UNCHANGED <<api_cache, client_result, first_result>>
                  ELSE /\ api_cache' = APICache_set(api_cache, key,
                                           found_result(client_api, client_album).dict,
                                           now, DefaultTtlHours)
                       /\ client_return(Some(found_result(client_api, client_album)),
                                        client_repeat)
    /\ UNCHANGED <<mainvars, jobvars, callers, now, config, network_up, client_api,
                   client_album, client_repeat, last_wait, cache_got, cache_stored>>

\* _get_musicbrainz_release_details after its wait, and the rest of
\* search_musicbrainz_release
client_details_request ==
    /\ client_pc = "details_request"
    /\ requests_sent' = Append(requests_sent, now)
    /\ call_requests' = call_requests + 1
    /\ LET key == _cache_key(cache_prefix(client_api), ClientArtist, client_album)
           detailed_release == AlbumMatchObject(ClientArtist, client_album)
       IN IF network_up
          THEN /\ rate_limit_log' = APICache_log_request(rate_limit_log, client_api, now)
               /\ api_cache' = APICache_set(api_cache, key, detailed_release.dict,
                                            now, DefaultTtlHours)
               /\ client_return(Some(detailed_release), client_repeat)
          ELSE /\ UNCHANGED rate_limit_log
               /\ api_cache' = APICache_set(api_cache, key, FailureMarker, now,
                                            DefaultTtlHours)
               /\ client_return(None, client_repeat)
    /\ UNCHANGED <<mainvars, jobvars, callers, now, config, network_up, client_api,
                   client_album, client_repeat, last_wait, cache_got, cache_stored>>

\* the network goes down: from now on every request raises
network_fails ==
    /\ network_up
    /\ network_up' = FALSE
    /\ UNCHANGED <<mainvars, jobvars, callers, now, api_cache, rate_limit_log, config,
                   client_api, client_pc, client_album, client_repeat,
                   client_result, first_result, call_requests, requests_sent,
                   last_wait, cache_got, cache_stored>>

\* the caller pauses for one window after the limit has been reached
client_idle ==
    /\ client_pc = "idle"
    /\ rate_limit_reached(client_api,
           get_request_count(rate_limit_log, client_api, now, limits(client_api).window))
    /\ now' = now + Seconds(limits(client_api).window)
    /\ UNCHANGED <<mainvars, jobvars, callers, api_cache, rate_limit_log, config, network_up,
                   client_api, client_pc, client_album, client_repeat,
                   client_result, first_result, call_requests, requests_sent,
                   last_wait, cache_got, cache_stored>>

NextClient ==
    \/ \E album \in 1..MaxAlbums(client_api) : client_search(album)
    \/ client_idle
    \/ client_wait_if_needed
    \/ client_request
    \/ client_details_request
    \/ network_fails

SpecClient == InitClient /\ [][NextClient]_vars

-----------------------------------------------------------------------------
(* RateLimiter used by two threads (request handlers of the web interface,
   or two batch runs) on the same rate_limit_log.  Each call of a search
   method is: wait_if_needed(api), the network request, log_request(api);
   the threads are interleaved between the database read of wait_if_needed,
   its sleep, the request and the database insert of log_request. *)

ConcurrentCalls == 2 \* calls of the second thread

\* the APIs of the concurrent runs: those with the delay of 1.0 s
ConcurrentApis == {"musicbrainz", "discogs"}

\* the calls a thread makes: the first one goes past the limit of the API
MaxCalls(c) ==
    IF c = 1 THEN limits(client_api).requests + ExtraAlbums ELSE ConcurrentCalls

InitConcurrent ==
    /\ InitMainVars
    /\ apis = {"musicbrainz"}
    /\ InitJobVars
    /\ \E api \in ConcurrentApis :
           InitClientState(api, [lastfm_api_key |-> TRUE, discogs_token |-> TRUE])

\* wait_if_needed up to its sleeps: get_request_count reads the log, and the
\* thread sleeps the window if the count has reached the limit, then the
\* delay between requests
caller_wait_if_needed(c) ==
    /\ callers[c].pc = "idle"
    /\ callers[c].calls < MaxCalls(c)
    /\ callers' = [callers EXCEPT ![c] =
                      [pc |-> "sleep",
                       wake |-> now + wait_if_needed(client_api, rate_limit_log, now),
                       calls |-> @.calls + 1]]
    /\ UNCHANGED <<mainvars, jobvars, now, api_cache, rate_limit_log, config,
                   network_up, client_api, client_pc, client_album, client_repeat,
                   client_result, first_result, call_requests, requests_sent,
                   last_wait, cache_got, cache_stored>>

\* the sleep is over: the network request of the search method
caller_request(c) ==
    /\ callers[c].pc = "sleep"
    /\ callers[c].wake <= now
    /\ requests_sent' = Append(requests_sent, now)
    /\ callers' = [callers EXCEPT ![c].pc = "log_request"]
    /\ UNCHANGED <<mainvars, jobvars, now, api_cache, rate_limit_log, config,
                   network_up, client_api, client_pc, client_album, client_repeat,
                   client_result, first_result, call_requests, last_wait, cache_got,
                   cache_stored>>

\* self.rate_limiter.log_request(api) after the request
caller_log_request(c) ==
    /\ callers[c].pc = "log_request"
    /\ rate_limit_log' = APICache_log_request(rate_limit_log, client_api, now)
    /\ callers' = [callers EXCEPT ![c].pc = "idle"]
    /\ UNCHANGED <<mainvars, jobvars, now, api_cache, config, network_up,
                   client_api, client_pc, client_album, client_repeat,
                   client_result, first_result, call_requests, requests_sent,
                   last_wait, cache_got, cache_stored>>

\* the threads that sleep
Sleeping == {c \in CallerIds : callers[c].pc = "sleep"}

\* time passes until the first sleeping thread wakes up; a thread that is
\* awake takes its next step first
time_passes ==
    /\ Sleeping # {}
    /\ \A c \in CallerIds : callers[c].pc # "log_request"
    /\ \A c \in Sleeping : callers[c].wake > now
    /\ \E c \in Sleeping :
           /\ \A o \in Sleeping : callers[c].wake <= callers[o].wake
           /\ now' = callers[c].wake
    /\ UNCHANGED <<mainvars, jobvars, callers, api_cache, rate_limit_log, config,
                   network_up, client_api, client_pc, client_album, client_repeat,
                   client_result, first_result, call_requests, requests_sent,
                   last_wait, cache_got, cache_stored>>

NextConcurrent ==
    \/ \E c \in CallerIds : caller_wait_if_needed(c)
    \/ \E c \in CallerIds : caller_request(c)
    \/ \E c \in CallerIds : caller_log_request(c)
    \/ time_passes

SpecConcurrent == InitConcurrent /\ [][NextConcurrent]_vars

-----------------------------------------------------------------------------
(* Matcher.find_best_album_match called on its own, over the whole catalogue *)

find_best_album_match_call(a) ==
    /\ pc = "idle"
    /\ pc' = "search_spotify"
    /\ flow' = "find_best"
    /\ cur' = a
    /\ all_matches' = <<>>
    /\ best_match' = None
    /\ candidates' = {}
    /\ failed_sources' = {}
    /\ UNCHANGED <<apis, job, hybrid_cfg, fetch_args, genre_sources, aggregated,
                   genre_cache, match_result, result, hybrid_db,
                   alt_sources, alt_aggregated,
                   stored_sources, jobvars, clientvars>>

\* return best_match (or None); all_matches goes out of scope
find_best_album_match_return ==
    /\ pc = "matched"
    /\ flow = "find_best"
    /\ pc' = "idle"
    /\ all_matches' = <<>>
    /\ candidates' = {}
    /\ failed_sources' = {}
    /\ UNCHANGED <<apis, job, hybrid_cfg, flow, cur, best_match, fetch_args,
                   genre_sources, aggregated, genre_cache, match_result, result,
                   hybrid_db, alt_sources, alt_aggregated,
                   stored_sources, jobvars, clientvars>>

NextMatch ==
    \/ \E a \in Library : find_best_album_match_call(a)
    \/ \E response \in SearchResponses : search_spotify(response)
    \/ \E response \in SearchResponses : search_musicbrainz(response)
    \/ find_best_album_match
    \/ find_best_album_match_return

SpecMatch == Init /\ [][NextMatch]_vars

-----------------------------------------------------------------------------
(* HybridGenreFetcher.aggregate_genres called on its own, on two inputs *)

LongGenres == <<"Blues", "Jazz", "Folk", "Soul", "Funk", "Punk", "Metal",
                "Disco", "House", "Techno", "Ambient", "Reggae">>

AggGenres(source) ==
    CASE source = "spotify" ->
             {<<"progressive rock", "art rock">>, <<"hip-hop", "hip hop">>,
              <<"hip-hop", "hip hop", "rock/pop">>, LongGenres}
      [] source = "musicbrainz" ->
             {<<"Progressive Rock", "Psychedelic Rock">>, <<"Rock">>}
      [] OTHER -> {<<"Rock">>}

AggConfidences == {Pct(20), Pct(90)}

AggMatchQualities == {10, 19, 20}

\* the GenreSource values one source can hand to aggregate_genres, and none
AggSourceInputs(source) ==
    {<<>>} \cup
    {<<GenreSource(source, g, c, source_weights[source], c, q)>> :
         g \in AggGenres(source), c \in AggConfidences, q \in AggMatchQualities}

AggInputs ==
    {sp \o mb \o dz : sp \in AggSourceInputs("spotify"),
                      mb \in AggSourceInputs("musicbrainz"),
                      dz \in AggSourceInputs("deezer")}

SameSources(a, b) ==
    /\ Len(a) = Len(b)
    /\ \A i \in 1..Len(a) : a[i].source = b[i].source /\ a[i].weight = b[i].weight

SameMatchQuality(a, b) ==
    \A i \in 1..Len(a) : a[i].match_quality = b[i].match_quality

SameGenres(a, b) ==
    \A i \in 1..Len(a) : a[i].genres = b[i].genres /\ a[i].confidence = b[i].confidence

\* the sources whose match_quality differs
DiffQuality(a, b) == {i \in 1..Len(a) : a[i].match_quality # b[i].match_quality}

\* the inputs with the sources and match qualities of input and any genres
RECURSIVE GenreVariants(_)
GenreVariants(input) ==
    IF input = <<>> THEN {<<>>}
    ELSE {<<GenreSource(Head(input).source, g, c, Head(input).weight, c,
                        Head(input).match_quality)>> \o rest :
              g \in AggGenres(Head(input).source), c \in AggConfidences,
              rest \in GenreVariants(Tail(input))}

\* the inputs that differ from input in the match quality of one source
QualityVariants(input) ==
    {[input EXCEPT ![i].match_quality = q] :
         i \in 1..Len(input), q \in AggMatchQualities} \ {input}

\* the second input: the same sources, and either the same match qualities
\* or the same genres with the match quality of one source changed
Variations(input) == GenreVariants(input) \cup QualityVariants(input)

InitAgg ==
    /\ apis = {"spotify", "musicbrainz"}
    /\ job = [confidence_threshold |-> Pct(DefaultThreshold), dry_run |-> TRUE]
    /\ hybrid_cfg = [confidence_threshold |-> Pct(HybridThreshold), dry_run |-> TRUE]
    /\ pc = "agg_call"
    /\ flow = "aggregate"
    /\ cur = CHOOSE a \in Library : a.artist = "pink floid"
    /\ all_matches = <<>>
    /\ best_match = None
    /\ fetch_args = None
    /\ genre_sources \in AggInputs
    /\ alt_sources \in Variations(genre_sources)
    /\ aggregated = None
    /\ alt_aggregated = None
    /\ genre_cache = [k \in CacheKeys |-> <<>>]
    /\ match_result = None
    /\ result = None
    /\ hybrid_db = [k \in {album_key(a) : a \in Library} |-> <<>>]
    /\ candidates = {}
    /\ failed_sources = {}
    /\ stored_sources = [k \in CacheKeys |-> <<>>]
    /\ InitJobVars
    /\ InitClientVars

aggregate_genres_call ==
    /\ pc = "agg_call"
    /\ aggregated' = Some(aggregate_genres(genre_sources))
    /\ alt_aggregated' = Some(aggregate_genres(alt_sources))
    /\ pc' = "agg_done"
    /\ UNCHANGED <<apis, job, hybrid_cfg, flow, cur, all_matches, best_match,
                   fetch_args, genre_sources, genre_cache, match_result, result,
                   hybrid_db, alt_sources, candidates,
                   failed_sources, stored_sources, jobvars, clientvars>>

NextAgg == aggregate_genres_call

SpecAgg == InitAgg /\ [][NextAgg]_vars

-----------------------------------------------------------------------------
(* Properties *)

\* C1: in every flow, while fetch_all_sources runs, the matcher has returned
\* a match for the album and the fetch was called with the artist and album
\* of that match.
C1_FetchOnlyMatched ==
    fetch_args # None =>
        /\ best_match # None
        /\ fetch_args[1].artist = best_match[1].artist
        /\ fetch_args[1].album = best_match[1].album

\* C2: every AlbumMatch a per-source search produced, and the one
\* find_best_album_match returns, has match_score >= 0.7 (14 twentieths); when
\* every candidate of every source scored below 0.7, no match is returned.
C2_MatchThreshold ==
    /\ \A i \in 1..Len(all_matches) : all_matches[i].match_score >= 14
    /\ best_match # None => best_match[1].match_score >= 14
    /\ (pc = "matched" /\ \A s \in candidates : s < 14) => best_match = None

\* find_best_album_match returned a match although one source also looked at
\* a candidate under 0.7
C2_Witness ==
    /\ pc = "matched"
    /\ flow = "find_best"
    /\ \E s \in candidates : s < 14
    /\ Len(all_matches) >= 2
    /\ best_match # None

C3_FromSpotify(m) == m.source = "spotify"

C3_FromMusicbrainz(m) == m.source = "musicbrainz"

\* the matches as collected when MusicBrainz is queried before Spotify
C3_Requeried ==
    SelectSeq(all_matches, C3_FromMusicbrainz) \o SelectSeq(all_matches, C3_FromSpotify)

\* C3: find_best_album_match returns a match of maximal match_score, the
\* first such in collection order (spotify before musicbrainz); querying the
\* sources in the other order gives a match of the same score.
C3_BestIsFirstMaximum ==
    pc = "matched" =>
        IF all_matches = <<>> THEN best_match = None
        ELSE /\ best_match # None
             /\ \E i \in 1..Len(all_matches) :
                    /\ best_match[1] = all_matches[i]
                    /\ \A j \in 1..Len(all_matches) :
                           all_matches[j].match_score <= all_matches[i].match_score
                    /\ \A j \in 1..(i - 1) :
                           all_matches[j].match_score < all_matches[i].match_score
             /\ \A i, j \in 1..Len(all_matches) :
                    (i < j /\ all_matches[j].source = "spotify")
                        => all_matches[i].source = "spotify"
             /\ select_best(C3_Requeried)[1].match_score = best_match[1].match_score

\* two sources found different releases with the same, maximal score, a third
\* match scored lower, and the Spotify one was returned
C3_Witness ==
    /\ pc = "matched"
    /\ flow = "find_best"
    /\ \E i, j, k \in 1..Len(all_matches) :
           /\ all_matches[i].source = "spotify"
           /\ all_matches[j].source = "musicbrainz"
           /\ all_matches[i].match_score = all_matches[j].match_score
           /\ all_matches[i].album # all_matches[j].album
           /\ all_matches[k].match_score < all_matches[i].match_score
           /\ best_match = Some(all_matches[i])

\* C4: when no source returned a match, the batch processor records the
\* album as skipped, not failed, with confidence 0.
C4_NoMatchIsSkipped ==
    (/\ flow = "hybrid"
     /\ pc = "idle"
     /\ result # None
     /\ result[1].status = "no_match"
     /\ aggregated # None
     /\ aggregated[1].sources_used = <<>>)
        => /\ hybrid_db[album_key(cur)] # <<>>
           /\ hybrid_db[album_key(cur)][1].status = "skipped"
           /\ hybrid_db[album_key(cur)][1].confidence = 0

\* C5: for every result of aggregate_genres, final_genres is empty iff
\* sources_used is empty iff confidence is 0.
C5_EmptyIffZero ==
    aggregated # None =>
        /\ (aggregated[1].final_genres = <<>>) <=> (aggregated[1].sources_used = <<>>)
        /\ (aggregated[1].sources_used = <<>>) <=> (aggregated[1].confidence = 0)

\* sum over the sources of match_quality * weight * 100, in 1/ConfScale points
RECURSIVE C6_Total(_)
C6_Total(sources) ==
    IF sources = <<>> THEN 0
    ELSE (Head(sources).match_quality * Head(sources).weight * Pct(100)) \div (20 * 100)
             + C6_Total(Tail(sources))

\* min(15, (n - 1) * 10) points
C6_Bonus(n) == IF (n - 1) * 10 < 15 THEN Pct((n - 1) * 10) ELSE Pct(15)

\* confidence = min(100, average + bonus), stated without a division
C6_Expected(sources, confidence) ==
    LET n == Len(sources)
        total == C6_Total(sources) + n * C6_Bonus(n)
    IN /\ 0 <= confidence
       /\ confidence <= Pct(100)
       /\ sources # <<>> =>
              IF total >= n * Pct(100) THEN confidence = Pct(100)
              ELSE n * confidence = total

\* C6: for a non-empty list of sources the confidence of aggregate_genres is
\* the average of match_quality * weight * 100 plus min(15, (n - 1) * 10),
\* clamped to [0, 100]; the confidence is always within [0, 100].
C6_ConfidenceFormula ==
    pc = "agg_done" =>
        /\ C6_Expected(genre_sources, aggregated[1].confidence)
        /\ C6_Expected(alt_sources, alt_aggregated[1].confidence)

\* three sources: one result below 100 with the bonus capped at 15, the other
\* clamped to 100
C6_Witness ==
    /\ pc = "agg_done"
    /\ Len(genre_sources) = 3
    /\ aggregated[1].confidence < Pct(100)
    /\ 3 * aggregated[1].confidence = C6_Total(genre_sources) + 3 * Pct(15)
    /\ C6_Total(alt_sources) + 3 * Pct(15) > 3 * Pct(100)
    /\ alt_aggregated[1].confidence = Pct(100)

\* C7: two inputs with the same sources, weights and match qualities but
\* different genre lists give the same confidence.
C7_GenresDoNotCount ==
    (/\ pc = "agg_done"
     /\ SameSources(genre_sources, alt_sources)
     /\ SameMatchQuality(genre_sources, alt_sources))
        => aggregated[1].confidence = alt_aggregated[1].confidence

\* the two inputs differ in the number of genres of a source and in the genres
\* selected, and the confidence is not at a clamp
C7_Witness ==
    /\ pc = "agg_done"
    /\ genre_sources # <<>>
    /\ SameSources(genre_sources, alt_sources)
    /\ SameMatchQuality(genre_sources, alt_sources)
    /\ \E i \in 1..Len(genre_sources) :
           Len(genre_sources[i].genres) # Len(alt_sources[i].genres)
    /\ Len(aggregated[1].final_genres) # Len(alt_aggregated[1].final_genres)
    /\ aggregated[1].confidence > 0
    /\ aggregated[1].confidence < Pct(100)
    /\ aggregated[1].confidence = alt_aggregated[1].confidence

\* the two inputs differ only in the match_quality of one source
C8_OnlyQualityDiffers ==
    /\ pc = "agg_done"
    /\ SameSources(genre_sources, alt_sources)
    /\ SameGenres(genre_sources, alt_sources)
    /\ Cardinality(DiffQuality(genre_sources, alt_sources)) = 1

\* C8 as stated: inputs that differ only in the match_quality of a source
\* give different confidences.
C8_QualityAlwaysCounts ==
    C8_OnlyQualityDiffers => aggregated[1].confidence # alt_aggregated[1].confidence

\* C8, amended: inputs that differ only in the match_quality of a source give
\* different confidences unless both results are clamped to 100.
C8_QualityCountsBelowClamp ==
    C8_OnlyQualityDiffers =>
        \/ aggregated[1].confidence # alt_aggregated[1].confidence
        \/ /\ aggregated[1].confidence = Pct(100)
           /\ alt_aggregated[1].confidence = Pct(100)

\* inputs that differ only in one match_quality, with different confidences
\* below 100
C8_Witness ==
    /\ C8_OnlyQualityDiffers
    /\ aggregated[1].confidence < Pct(100)
    /\ alt_aggregated[1].confidence < Pct(100)
    /\ aggregated[1].confidence # alt_aggregated[1].confidence

\* the accumulated score of a genre
C9_Score(scores, genre) ==
    (CHOOSE e \in SeqToSet(scores) : e.genre = genre).score

\* final_genres against the accumulated scores
C9_Selected(scores, final) ==
    /\ \A i \in 1..Len(final) : \E e \in SeqToSet(scores) : e.genre = final[i]
    /\ \A i, j \in 1..Len(final) :
           i < j => C9_Score(scores, final[i]) >= C9_Score(scores, final[j])
    /\ \A i \in 1..Len(final) : 10 * C9_Score(scores, final[i]) >= 3 * ScoreUnit
    /\ \A i, j \in 1..Len(final) : i # j => final[i] # final[j]
    /\ Len(final) <= 10
    /\ \A e \in SeqToSet(scores) :
           (10 * e.score >= 3 * ScoreUnit /\ e.genre \notin SeqToSet(final))
               => Cardinality({i \in 1..Len(final) :
                                   C9_Score(scores, final[i]) >= e.score}) = 10

\* C9: final_genres is ordered by accumulated score descending, holds only
\* genres of score >= 0.3, no genre twice and at most 10 genres; a genre of
\* score >= 0.3 is left out only when 10 genres of at least its score are in.
C9_FinalGenres ==
    pc = "agg_done" =>
        /\ C9_Selected(AccumulateScores(<<>>, genre_sources), aggregated[1].final_genres)
        /\ C9_Selected(AccumulateScores(<<>>, alt_sources), alt_aggregated[1].final_genres)

\* twelve genres score 0.9 and two of them are left out; another genre scores
\* under 0.3; the second input has a genre named twice by a source and one
\* whose score two sources add up
C9_Witness ==
    /\ pc = "agg_done"
    /\ Len(aggregated[1].final_genres) = 10
    /\ \E e \in SeqToSet(AccumulateScores(<<>>, genre_sources)) :
           /\ 10 * e.score >= 3 * ScoreUnit
           /\ e.genre \notin SeqToSet(aggregated[1].final_genres)
    /\ \E e \in SeqToSet(AccumulateScores(<<>>, genre_sources)) :
           10 * e.score < 3 * ScoreUnit
    /\ Len(alt_sources[1].genres) = 2
    /\ _normalize_genre_name(alt_sources[1].genres[1])
           = _normalize_genre_name(alt_sources[1].genres[2])
    /\ \E e \in SeqToSet(AccumulateScores(<<>>, alt_sources)) :
           /\ e.genre \in SeqToSet(alt_aggregated[1].final_genres)
           /\ \A i \in 1..Len(alt_sources) :
                  10 * source_multiplier(alt_sources[i]) < 3 * ScoreUnit

\* a BatchProcessor.process_album call with the default threshold returned
\* without an exception
C10_Returned ==
    /\ flow = "batch"
    /\ pc = "idle"
    /\ result # None
    /\ ~result[1].error
    /\ job.confidence_threshold = Pct(95)

\* C10: with the thresholds 95/70/40 process_album puts a confidence c in
\* exactly one band: c >= 95 completed; 70 <= c < 95 needs_review (medium);
\* 40 <= c < 70 needs_review (low); c < 40 skipped.
C10_Bands ==
    C10_Returned =>
        LET c == match_result[1].genre_confidence
            r == result[1]
        IN /\ r.confidence = c
           /\ (c >= Pct(95)) <=> (r.status = "completed")
           /\ (Pct(70) <= c /\ c < Pct(95))
                  <=> (r.status = "needs_review" /\ r.manual_review_reason = "medium")
           /\ (Pct(40) <= c /\ c < Pct(70))
                  <=> (r.status = "needs_review" /\ r.manual_review_reason = "low")
           /\ (c < Pct(40)) <=> (r.status = "skipped")

\* a confidence between 70 and 95 of a matched album was put in the medium
\* band
C10_Witness ==
    /\ C10_Returned
    /\ match_result[1].matched # None
    /\ match_result[1].genre_confidence >= Pct(70)
    /\ match_result[1].genre_confidence < Pct(95)
    /\ result[1].status = "needs_review"
    /\ result[1].manual_review_reason = "medium"

\* a HybridBatchProcessor.process_album call returned a result of its own
C16_Processed ==
    /\ flow = "hybrid"
    /\ pc = "idle"
    /\ result # None
    /\ result[1].status # "skipped_already_processed"

\* C16: files are written only when the run is not a dry run and the
\* confidence is at or above the threshold; a dry run writes nothing; a
\* result recorded as needs_review, skipped or failed has files_updated = 0.
C16_WritesOnlyWhenCompleted ==
    C16_Processed =>
        LET row == hybrid_db[album_key(cur)][1]
        IN /\ result[1].files_updated > 0 =>
                  /\ ~hybrid_cfg.dry_run
                  /\ result[1].confidence >= hybrid_cfg.confidence_threshold
           /\ hybrid_cfg.dry_run => result[1].files_updated = 0
           /\ row.status \in {"needs_review", "skipped", "failed"}
                  => row.files_updated = 0

\* the accumulated scores of the genres of the first input
C18_Scores == AccumulateScores(<<>>, genre_sources)

\* the genre is named by the source (after normalisation)
C18_Names(source, genre) ==
    \E i \in 1..Len(source.genres) : _normalize_genre_name(source.genres[i]) = genre

\* no two raw genres of the source normalise to the same name
C18_NoDuplicates(source) ==
    \A i, j \in 1..Len(source.genres) :
        _normalize_genre_name(source.genres[i]) = _normalize_genre_name(source.genres[j])
            => i = j

\* a genre named by both sources precedes every selected genre named by one
C18_Ranked ==
    \A e, f \in SeqToSet(C18_Scores) :
        (/\ C18_Names(genre_sources[1], e.genre)
         /\ C18_Names(genre_sources[2], e.genre)
         /\ ~(C18_Names(genre_sources[1], f.genre) /\ C18_Names(genre_sources[2], f.genre))
         /\ f.genre \in SeqToSet(aggregated[1].final_genres))
            => \E i, j \in 1..Len(aggregated[1].final_genres) :
                   /\ i < j
                   /\ aggregated[1].final_genres[i] = e.genre
                   /\ aggregated[1].final_genres[j] = f.genre

\* C18 (as amended): with two contributing sources, neither of which names
\* a genre twice after normalisation, a genre named by both is ranked before
\* every genre named by only one of them.
C18_SharedGenresFirstWithoutDuplicates ==
    (/\ pc = "agg_done"
     /\ Len(genre_sources) = 2
     /\ C18_NoDuplicates(genre_sources[1])
     /\ C18_NoDuplicates(genre_sources[2])) => C18_Ranked

\* two sources without duplicates, one genre shared and another, named by one
\* source only, selected after it
C18_Witness ==
    /\ pc = "agg_done"
    /\ Len(genre_sources) = 2
    /\ C18_NoDuplicates(genre_sources[1])
    /\ C18_NoDuplicates(genre_sources[2])
    /\ Len(aggregated[1].final_genres) >= 2
    /\ C18_Names(genre_sources[1], aggregated[1].final_genres[1])
    /\ C18_Names(genre_sources[2], aggregated[1].final_genres[1])
    /\ ~C18_Names(genre_sources[2], aggregated[1].final_genres[2])
    /\ source_multiplier(genre_sources[1]) > source_multiplier(genre_sources[2])

\* C18 (as stated): with two contributing sources, a genre named by both is
\* ranked before every genre named by only one of them, for all genre lists.
C18_SharedGenresFirst ==
    (pc = "agg_done" /\ Len(genre_sources) = 2) => C18_Ranked

\* C17: a source whose search failed (missing client, transport error or
\* malformed payload) contributes no result to find_best_album_match, the
\* other sources are still queried and the call returns normally.
C17_FailedSourceContributesNothing ==
    /\ \A i \in 1..Len(all_matches) : all_matches[i].source \notin failed_sources
    /\ (flow = "find_best" /\ pc = "matched" /\ best_match # None)
           => best_match[1].source \notin failed_sources

\* the four compared fields of a source result
C19_Fields(source) ==
    <<source.genres, source.confidence, source.weight, source.match_quality>>

\* C19: a source result that fetch_all_sources obtained is equal, in genres,
\* confidence, weight and match_quality, to the result stored in the cache
\* under its key.
C19_CachedEqualsStored ==
    fetch_args # None =>
        \A i \in 1..Len(genre_sources) :
            LET key == get_cache_key(fetch_args[1].artist, fetch_args[1].album,
                                     genre_sources[i].source)
            IN stored_sources[key] # <<>>
                   => C19_Fields(genre_sources[i]) = C19_Fields(stored_sources[key][1])

\* an earlier job recorded the album as completed with files written
C14_AlreadyProcessed(key) ==
    \E i \in 1..Len(album_results) - counters.processed :
        /\ album_results[i].album_key = key
        /\ album_results[i].status = "completed"
        /\ album_results[i].files_updated > 0

\* C14: an album with a stored completed result with files_updated > 0 is
\* skipped on a later run: no search or fetch is started for it and no file
\* is written.
C14_ProcessedAlbumIsSkipped ==
    (job_state = "running" /\ C14_AlreadyProcessed(album_key(cur)))
        => /\ pc = "idle"
           /\ result # None => result[1].files_updated = 0

\* C15: an exception while an album is processed or its result is persisted
\* never aborts the batch: the job keeps running and returns with a row for
\* every album of its list.
C15_BatchNeverAborted ==
    /\ job_state # "raised"
    /\ job_state = "returned" => job_queue = <<>>

\* the last set of the key before the get, if any
C11_Stored(key) == {st \in cache_stored : st.key = key}

\* C11: a get before the TTL of the most recent set of the key has elapsed
\* returns a value equal to the stored one; a get after the TTL has elapsed,
\* or of a key never set, returns nothing.
C11_GetReturnsStoredUntilExpiry ==
    cache_got # None =>
        LET got == cache_got[1]
        IN /\ C11_Stored(got.key) = {} => got.value = None
           /\ \A st \in C11_Stored(got.key) :
                  IF got.at < st.set_at + Hours(st.ttl_hours)
                  THEN got.value = Some(st.data)
                  ELSE got.value = None

\* a get, later than the set and before its TTL of two hours has elapsed,
\* that returned the stored AlbumMatch dict
C11_Witness ==
    /\ cache_got # None
    /\ \E st \in C11_Stored(cache_got[1].key) :
           /\ st.ttl_hours = 2
           /\ cache_got[1].at > st.set_at
           /\ cache_got[1].at < st.set_at + Hours(st.ttl_hours)
           /\ cache_got[1].value = Some(AlbumMatchObject("pink floyd", 1).dict)

\* a get at the instant the TTL has elapsed returned nothing
C11_WitnessExpired ==
    /\ cache_got # None
    /\ \E st \in C11_Stored(cache_got[1].key) :
           /\ cache_got[1].at = st.set_at + Hours(st.ttl_hours)
           /\ cache_got[1].value = None

\* C12: in any window of the limit's length no more network requests are
\* issued to the API than the limit allows, requests that raise included.
\* The times are in issue order, so it is enough that the request issued
\* limit-many places before the last one lies outside the window that ends
\* with the last one.
C12_RequestsWithinLimit ==
    LET n == Len(requests_sent)
        limit == limits(client_api)
    IN n > limit.requests
           => requests_sent[n - limit.requests]
                  <= requests_sent[n] - Seconds(limit.window)

\* the logged requests of the API within the window before the time
C13_LoggedInWindow(at) ==
    {i \in 1..Len(rate_limit_log) :
        /\ rate_limit_log[i].api_name = client_api
        /\ rate_limit_log[i].timestamp > at - Seconds(limits(client_api).window)}

\* C13: wait_if_needed sleeps the full window exactly when the number of
\* requests logged within the last window is at least the limit; when every
\* logged request is older than the window the call goes on after the short
\* delay only.
C13_WaitsExactlyAtLimit ==
    (client_pc \in {"request", "details_request"} /\ last_wait # None) =>
        LET w == last_wait[1]
            count == Cardinality(C13_LoggedInWindow(w.at))
        IN /\ w.slept <=> count >= limits(client_api).requests
           /\ now = w.at + request_delay(client_api)
                     + (IF w.slept THEN Seconds(limits(client_api).window) ELSE 0)
           /\ C13_LoggedInWindow(w.at) = {} => ~w.slept

\* a wait_if_needed that slept the window
C13_Witness ==
    /\ client_pc \in {"request", "details_request"}
    /\ last_wait # None
    /\ last_wait[1].slept
    /\ now = last_wait[1].at + Seconds(limits(client_api).window)
                 + request_delay(client_api)

\* a wait_if_needed that found the limit's worth of logged requests, all of
\* them older than the window, and did not sleep it
C13_WitnessAllOlder ==
    /\ client_pc \in {"request", "details_request"}
    /\ last_wait # None
    /\ ~last_wait[1].slept
    /\ Len(rate_limit_log) >= limits(client_api).requests
    /\ C13_LoggedInWindow(last_wait[1].at) = {}

\* C20: a call repeated with the same artist and album before the TTL has
\* elapsed issues no network request and returns a result equal to the one
\* the first call returned.
C20_RepeatedCallEqualsFirst ==
    (client_pc = "idle" /\ client_repeat /\ client_result # <<>>) =>
        /\ call_requests = 0
        /\ client_result = first_result

\* the sources that gave fetch_all_sources a result so far
C21_Contributed == {genre_sources[i].source : i \in 1..Len(genre_sources)}

\* C21: after a lookup of a source that found nothing or failed, the cache
\* holds an entry for (artist, album, source), which answers a repeated lookup
\* without a network request.
C21_NoResultIsCached ==
    /\ (pc = "fetch_musicbrainz" /\ "spotify" \in apis /\ "spotify" \notin C21_Contributed)
           => genre_cache[get_cache_key(fetch_args[1].artist, fetch_args[1].album,
                                        "spotify")] # <<>>
    /\ (pc = "aggregate" /\ "deezer" \notin C21_Contributed)
           => genre_cache[get_cache_key(fetch_args[1].artist, fetch_args[1].album,
                                        "deezer")] # <<>>

\* C22: the processing_status of the MatchResult follows the confidence
\* policy on its match confidence: completed from 95, needs_review in
\* [40, 95), skipped below 40.
C22_StatusFollowsPolicy ==
    match_result # None =>
        LET confidence == match_result[1].overall_confidence
        IN match_result[1].processing_status =
               (IF confidence >= Pct(DefaultThreshold) THEN "completed"
                ELSE IF confidence >= Pct(SkipThreshold) THEN "needs_review"
                ELSE "skipped")


\* the counters of a job other than processed
C23_StatusCounters == {"successful", "failed", "needs_review", "skipped"}

\* processed = successful + failed + needs_review + skipped
C23_AddsUp(c) ==
    c.processed = c.successful + c.failed + c.needs_review + c.skipped

\* C23: the counters of run_batch_job, and the counters update_job_progress
\* stored for a job, satisfy processed = successful + failed + needs_review +
\* skipped after each album, and no counter of run_batch_job decreases while
\* the run goes on.
C23_CountersAddUpAndGrow ==
    /\ [](/\ C23_AddsUp(counters)
          /\ \A id \in 1..Len(batch_jobs) : C23_AddsUp(batch_jobs[id]))
    /\ [][(job_state = "running" /\ job_state' = "running")
              => \A f \in C23_StatusCounters \cup {"processed"} :
                     counters'[f] >= counters[f]]_vars

\* a run has handled two albums with different outcomes and stored its counters
C23_Witness ==
    /\ job_state = "running"
    /\ counters.processed = 2
    /\ counters.successful = 1
    /\ counters.needs_review = 1
    /\ batch_jobs[job_id].processed = 2


\* the values of ProcessingStatus a finished album may have
C24_TerminalStatuses == {"completed", "needs_review", "skipped", "failed"}

\* C24: the status recorded for a processed album is completed, needs_review,
\* skipped or failed, and it is failed only when processing the album raised
\* an exception (the result of the except branch).
C24_FailedOnlyOnException ==
    (flow = "hybrid" /\ pc = "idle" /\ result # None
         /\ result[1].status # "skipped_already_processed")
        => LET row == hybrid_db[album_key(cur)][1]
           IN /\ row.status \in C24_TerminalStatuses
              /\ row.status = "failed" => result[1].status = "error"


\* the rows of before are the first rows of after, unchanged
C25_StillStored(before, after) ==
    /\ Len(before) <= Len(after)
    /\ \A i \in 1..Len(before) : after[i] = before[i]

\* C25: no step of a batch run, and no interruption of it between two albums,
\* inside process_album or between two database calls, removes or changes a
\* row of album_results that was stored before.
C25_PersistedResultsKept ==
    [][C25_StillStored(album_results, album_results')]_vars

\* a run was interrupted with albums left, after it had stored a result
C25_Witness ==
    /\ job_state = "interrupted"
    /\ job_queue # <<>>
    /\ counters.processed > 0
    /\ Len(album_results) > 0


\* C26: no two rows of album_results have the same job id and album key.
C26_OneResultPerJobAndAlbum ==
    \A i, k \in 1..Len(album_results) :
        (/\ album_results[i].job_id = album_results[k].job_id
         /\ album_results[i].album_key = album_results[k].album_key) => i = k


\* number of elements of a sequence of rows that satisfy Test
C28_Count(rows, Test(_)) == Len(SelectSeq(rows, Test))

\* the rows of a table added since the run began
C28_Added(rows, before) == SubSeq(rows, before + 1, Len(rows))

\* the rows of a table that belong to the job
C28_OfJob(rows, id) == SelectSeq(rows, LAMBDA row : row.job_id = id)

C30_ProcessedWithinTotal ==
    \A id \in 1..Len(batch_jobs) :
        batch_jobs[id].processed <= batch_jobs[id].total_albums


\* the stored row of the album is completed with files written
C29_Completed(key) ==
    /\ hybrid_db[key] # <<>>
    /\ hybrid_db[key][1].status = "completed"
    /\ hybrid_db[key][1].files_updated > 0

C29_CheckRaised(key) ==
    /\ pc = "idle"
    /\ pc' = "idle"
    /\ key = album_key(cur')
    /\ result' # None
    /\ result'[1].status = "error"

C27_ConcurrentRequestsWithinLimit ==
    LET n == Len(requests_sent)
        limit == limits(client_api)
    IN n > limit.requests
           => requests_sent[n - limit.requests]
                  <= requests_sent[n] - Seconds(limit.window)

====
